---- MODULE Spec2Model ----
(***************************************************************************)
(* devsim: the ProtoBridge protocol driver (src/src/protobridge.rs) and    *)
(* the clocked byte channel it drives, the Device facade over it           *)
(* (src/src/device.rs) and the sim front end (src/src/bin/sim.rs).         *)
(*                                                                         *)
(* Number representation.  TLC integers are 32-bit signed, so              *)
(*   - a u32 is the record [hi, lo]: hi its top 2 bits, lo its low 30      *)
(*     bits (value = hi * 2^30 + lo);                                      *)
(*   - the u64 command word is the record [id, addr, size] of its three    *)
(*     disjoint bit fields: bits 60..63, bits 30..59 and bits 0..29.       *)
(* Bytes on the input side are integers 0..255.  Bytes on the output side  *)
(* are records [v, rd, pos]: v the byte value, and two history fields      *)
(* naming the Read command (rd, counted from 1 in decode order) and the    *)
(* position (pos) in its response the device produced the byte for.        *)
(***************************************************************************)
EXTENDS Integers, Sequences, FiniteSets, TLC

VARIABLES
    clocks,        \* ProtoBridge.clocks
    input_queue,   \* ProtoBridge.input_queue
    output_queue,  \* ProtoBridge.output_queue
    dev,           \* the external model behind ProtoBridge.handle
    pc,            \* where the client is: "idle", "wait" (in wait_for_output),
                   \* "enc" / "fn" (a pure function applied), "new", "crashed"
    cur,           \* the call in progress (while pc = "wait")
    log,           \* the completed calls, in call order
    issued,        \* history: number of Read commands enqueued so far
    written,       \* history: every byte ever appended to input_queue
    fed,           \* history: every byte the channel consumed, in order
    produced,      \* history: every byte the channel produced, in order
    returned,      \* history: every byte handed to a caller by a read
    stalls,        \* history: cycles in which the channel held a byte back
    enc,           \* inputs and results of the command encoders (SpecEnc)
    handle,        \* ProtoBridge.handle: "NULL" or "HANDLE"
    app            \* the Device in use and the front end above it

vars == <<clocks, input_queue, output_queue, dev, pc, cur, log, issued,
          written, fed, produced, returned, stalls, enc, handle, app>>

(***************************************************************************)
(* Bounds of the model.                                                    *)
(***************************************************************************)
MaxOps == 3        \* calls made on one bridge
MaxStall == 1      \* cycles in which the channel may hold a byte back

(***************************************************************************)
(* Program constants.                                                      *)
(***************************************************************************)
CMD_ID_READ == 1
CMD_ID_WRITE == 2
REG_IDX_DEV_EN == 0
REG_IDX_FB_ADDR == 1
REG_IDX_FB_CONFIG == 2

FIELD30 == 1073741824      \* 2^30 = 0x3fffffff + 1, the modulus of `& 0x3fffffff`
REG_SENTINEL == 1073737728 \* 0x3ffff000
U16_MOD == 65536           \* 2^16, the width of idx: u16

(***************************************************************************)
(* Bit arithmetic on naturals below 2^31.                                  *)
(***************************************************************************)
RECURSIVE BitOr(_, _)
BitOr(a, b) ==
    IF a = 0 THEN b
    ELSE IF b = 0 THEN a
    ELSE (IF a % 2 = 1 \/ b % 2 = 1 THEN 1 ELSE 0) + 2 * BitOr(a \div 2, b \div 2)

RECURSIVE BitAnd(_, _)
BitAnd(a, b) ==
    IF a = 0 \/ b = 0 THEN 0
    ELSE (IF a % 2 = 1 /\ b % 2 = 1 THEN 1 ELSE 0) + 2 * BitAnd(a \div 2, b \div 2)

\* a u32 holding the natural n < 2^31 (`n as u32`)
U32Of(n) == [hi |-> (n \div FIELD30) % 4, lo |-> n % FIELD30]

\* `x as u64 & 0x3fffffff` for a u32 x
Mask30(x) == x.lo

\* whether the u32 x is representable in a 30-bit subfield
Fits30(x) == x.hi = 0

(***************************************************************************)
(* CommandEncoder: build_cmd and build_reg_cmd.                            *)
(***************************************************************************)
build_cmd(id, addr, size) ==
    [id |-> BitAnd(id, 15), addr |-> Mask30(addr), size |-> Mask30(size)]

build_reg_cmd(id, idx, data) ==
    [id   |-> BitAnd(id, 15),
     addr |-> BitOr((idx * 4) % U16_MOD, REG_SENTINEL) % FIELD30,
     size |-> Mask30(data)]

(***************************************************************************)
(* u64::to_le_bytes of a command word and u32::from_le_bytes.              *)
(***************************************************************************)
to_le_bytes(w) ==
    << w.size % 256,
       (w.size \div 256) % 256,
       (w.size \div 65536) % 256,
       ((w.size \div 16777216) % 64) + (w.addr % 4) * 64,
       (w.addr \div 4) % 256,
       (w.addr \div 1024) % 256,
       (w.addr \div 262144) % 256,
       ((w.addr \div 67108864) % 16) + w.id * 16 >>

\* the byte values of a sequence of output bytes
Vals(s) == [i \in 1..Len(s) |-> s[i].v]

\* the four bytes read most significant first
u32_from_be_bytes(b) ==
    [hi |-> b[1] \div 64,
     lo |-> (b[1] % 64) * 16777216 + b[2] * 65536 + b[3] * 256 + b[4]]

u32_from_le_bytes(b) ==
    [hi |-> b[4] \div 64,
     lo |-> (b[4] % 64) * 16777216 + b[3] * 65536 + b[2] * 256 + b[1]]

(***************************************************************************)
(* The external hardware model behind the FFI (CreateProtoBridge,          *)
(* QueryProtoBridgeDataStatus, ClockProtoBridge).  Its code is not part of *)
(* the sources; it is modelled from the specification: a decoder of        *)
(* little-endian command words, a linear memory, a three-entry register    *)
(* file, and a FIFO of response bytes.                                     *)
(***************************************************************************)
MemCells == 0..3
RegFile == {REG_IDX_DEV_EN, REG_IDX_FB_ADDR, REG_IDX_FB_CONFIG}

DevInit ==
    [hdr    |-> <<>>,                       \* bytes of the command word being received
     left   |-> 0,                          \* payload bytes still expected by a Write
     waddr  |-> 0,                          \* where the next payload byte goes
     out    |-> <<>>,                       \* response bytes not yet taken
     mem    |-> [a \in MemCells |-> 0],
     regs   |-> [r \in RegFile |-> 0],
     nreads |-> 0,                          \* Read commands decoded so far
     cycles |-> 0]                          \* cycles stepped so far

DevDecode(h) ==
    [id   |-> h[8] \div 16,
     addr |-> (h[8] % 16) * 67108864 + h[7] * 262144 + h[6] * 1024 + h[5] * 4
              + (h[4] \div 64),
     size |-> (h[4] % 64) * 16777216 + h[3] * 65536 + h[2] * 256 + h[1]]

DevIsReg(w) == BitAnd(w.addr, REG_SENTINEL) = REG_SENTINEL
DevRegIdx(w) == (w.addr - REG_SENTINEL) \div 4

DevMemAt(d, a) == IF a \in MemCells THEN d.mem[a] ELSE 0
DevRegAt(d, r) == IF r \in RegFile THEN d.regs[r] ELSE 0

DevResponse(d, w) ==
    LET k == d.nreads + 1 IN
    IF DevIsReg(w)
    THEN LET x == DevRegAt(d, DevRegIdx(w)) IN
         << [v |-> x % 256, rd |-> k, pos |-> 1],
            [v |-> (x \div 256) % 256, rd |-> k, pos |-> 2],
            [v |-> (x \div 65536) % 256, rd |-> k, pos |-> 3],
            [v |-> (x \div 16777216) % 256, rd |-> k, pos |-> 4] >>
    ELSE [i \in 1..w.size |->
            [v |-> DevMemAt(d, (w.addr + (i - 1)) % FIELD30), rd |-> k, pos |-> i]]

DevExec(d, w) ==
    IF w.id = CMD_ID_READ
    THEN [d EXCEPT !.hdr = <<>>, !.nreads = @ + 1, !.out = @ \o DevResponse(d, w)]
    ELSE IF w.id = CMD_ID_WRITE
    THEN IF DevIsReg(w)
         THEN [d EXCEPT !.hdr = <<>>,
                        !.regs = IF DevRegIdx(w) \in RegFile
                                 THEN [@ EXCEPT ![DevRegIdx(w)] = w.size] ELSE @]
         ELSE [d EXCEPT !.hdr = <<>>, !.left = w.size, !.waddr = w.addr]
    ELSE [d EXCEPT !.hdr = <<>>]

DevInput(d, byte) ==
    IF d.left > 0
    THEN [d EXCEPT !.left = @ - 1,
                   !.waddr = (@ + 1) % FIELD30,
                   !.mem = IF d.waddr \in MemCells
                           THEN [@ EXCEPT ![d.waddr] = byte] ELSE @]
    ELSE IF Len(d.hdr) = 7
    THEN DevExec(d, DevDecode(Append(d.hdr, byte)))
    ELSE [d EXCEPT !.hdr = Append(@, byte)]

\* QueryProtoBridgeDataStatus: the statuses the model may report.  It reports
\* "output empty" whenever it holds no response byte; beyond that it may hold a
\* byte back in either direction (a stall), at most MaxStall times.
IsStall(d, st) ==
    st.is_input_full = 1 \/ (st.is_output_empty = 1 /\ d.out # <<>>)

QueryProtoBridgeDataStatus(d, nstall) ==
    {st \in [is_input_full : {0, 1}, is_output_empty : {0, 1}] :
        /\ d.out = <<>> => st.is_output_empty = 1
        /\ IsStall(d, st) => nstall < MaxStall}

\* ClockProtoBridge(handle, p_in, p_out): one cycle.  p_in is <<>> (null) or
\* <<byte>>; p_out is FALSE (null) or TRUE.  The byte written through p_out is
\* the head of the response FIFO.
DevOutput(d, p_out) ==
    IF p_out /\ d.out # <<>> THEN Head(d.out) ELSE [v |-> 0, rd |-> 0, pos |-> 0]

ClockProtoBridge(d, p_in, p_out) ==
    LET d1 == IF p_out /\ d.out # <<>> THEN [d EXCEPT !.out = Tail(@)] ELSE d
        d2 == IF p_in # <<>> THEN DevInput(d1, p_in[1]) ELSE d1
    IN  [d2 EXCEPT !.cycles = @ + 1]

(***************************************************************************)
(* ProtoBridge: the queues (impl io::Read / io::Write).                    *)
(***************************************************************************)
Min(a, b) == IF a < b THEN a ELSE b

\* a write that puts the new bytes ahead of the queued ones
io_write_front(iq, buf) == buf \o iq

\* io::Write::write: input_queue.extend(buf)
io_write(iq, buf) == iq \o buf

\* a read that drains from the back of the queue, newest byte first
io_read_back(oq, n) ==
    LET k == Min(Len(oq), n) IN
    [bytes |-> [i \in 1..k |-> oq[Len(oq) + 1 - i]], rest |-> SubSeq(oq, 1, Len(oq) - k)]

\* io::Read::read into a buffer of n bytes: drains the first min(len, n) bytes
io_read(oq, n) ==
    LET k == Min(Len(oq), n) IN
    [bytes |-> SubSeq(oq, 1, k), rest |-> SubSeq(oq, k + 1, Len(oq))]

\* Read::read_exact over io_read: reads until n bytes are in hand; a read of
\* zero bytes before that is the error the callers' expect() turns into a panic
read_exact(oq, n) ==
    LET r == io_read(oq, n) IN
    [ok |-> Len(r.bytes) = n, bytes |-> r.bytes, rest |-> r.rest]

\* a write_cmd that replaces the queued bytes by the command word
write_cmd_replacing(iq, cmd) == to_le_bytes(cmd)

\* write_cmd: write_all(&cmd.to_le_bytes())
write_cmd(iq, cmd) == io_write(iq, to_le_bytes(cmd))

cmd_read_bytes(iq, addr, size) == write_cmd(iq, build_cmd(CMD_ID_READ, addr, size))
cmd_write_bytes(iq, addr, size) == write_cmd(iq, build_cmd(CMD_ID_WRITE, addr, size))

\* a register write encoded as a memory Write of `data` bytes at address idx
cmd_write_reg_as_mem(iq, idx, data) ==
    write_cmd(iq, build_cmd(CMD_ID_WRITE, U32Of(idx), data))

cmd_write_reg(iq, idx, data) == write_cmd(iq, build_reg_cmd(CMD_ID_WRITE, idx, data))

\* 0xffffffff: u32
U32_ALL_ONES == [hi |-> 3, lo |-> FIELD30 - 1]
cmd_read_reg(iq, idx) == write_cmd(iq, build_reg_cmd(CMD_ID_READ, idx, U32_ALL_ONES))

\* write_bytes: the Write command, then the payload
write_bytes(iq, addr, buf) == io_write(cmd_write_bytes(iq, addr, U32Of(Len(buf))), buf)

(***************************************************************************)
(* ProtoBridge::clock, in its parts.                                       *)
(***************************************************************************)
\* a p_in that points at the front byte whatever the status says
clock_p_in_ignoring_full(status, iq) ==
    IF iq # <<>> THEN <<Head(iq)>> ELSE <<>>

\* p_in: null (<<>>) or a pointer to the front of input_queue (<<byte>>)
clock_p_in(status, iq) ==
    IF status.is_input_full = 0 /\ iq # <<>> THEN <<Head(iq)>> ELSE <<>>

\* p_out: null (FALSE) or a pointer to the local output byte (TRUE)
clock_p_out(status) == status.is_output_empty = 0

\* a clock() that leaves the byte it fed at the front of the queue
clock_input_queue_keeping(p_in, iq) == iq

clock_input_queue(p_in, iq) == IF p_in # <<>> THEN Tail(iq) ELSE iq

\* push_front in place of push_back
clock_output_queue_front(p_out, output, oq) == IF p_out THEN <<output>> \o oq ELSE oq

clock_output_queue(p_out, output, oq) == IF p_out THEN Append(oq, output) ELSE oq

\* a counter that skips the cycles in which no byte moved
clock_clocks_on_transfer(p_in, p_out, c) == IF p_in # <<>> \/ p_out THEN c + 1 ELSE c

clock_clocks(p_in, p_out, c) == c + 1

\* one call of clock() under the status the model reports
clock(status) ==
    LET p_in   == clock_p_in(status, input_queue)
        p_out  == clock_p_out(status)
        output == DevOutput(dev, p_out)
    IN  /\ dev' = ClockProtoBridge(dev, p_in, p_out)
        /\ input_queue' = clock_input_queue(p_in, input_queue)
        /\ output_queue' = clock_output_queue(p_out, output, output_queue)
        /\ clocks' = clock_clocks(p_in, p_out, clocks)
        /\ fed' = fed \o p_in
        /\ produced' = IF p_out THEN Append(produced, output) ELSE produced
        /\ stalls' = IF IsStall(dev, status) THEN stalls + 1 ELSE stalls

(***************************************************************************)
(* ProtoBridge::wait_for_output: the loop and its result.                  *)
(***************************************************************************)
\* a loop bound that is off by one
wait_continues_inclusive(len, num_bytes, i, max_wait_cycles) ==
    len < num_bytes /\ i <= max_wait_cycles

\* a loop that tests the queue only after its first cycle
wait_continues_do_while(len, num_bytes, i, max_wait_cycles) ==
    i < max_wait_cycles /\ (i = 0 \/ len < num_bytes)

\* whether the loop runs (another) iteration: i iterations done so far
wait_continues(len, num_bytes, i, max_wait_cycles) ==
    len < num_bytes /\ i < max_wait_cycles

wait_result(len, num_bytes) == IF len >= num_bytes THEN "Ok" ELSE "Timeout"

\* a read that throws away what it captured when its wait times out
read_timed_out_flushing(oq) == <<>>

\* read_bytes / read_reg, `Err(err) => Err(err)`: output_queue after the wait
\* timed out
read_timed_out(oq) == oq

(***************************************************************************)
(* The calls a client makes, and the arguments it draws.  Memory calls     *)
(* address linear memory (below the register window 0x3ffff000..); the     *)
(* register window is reached through write_reg / read_reg.  The budgets   *)
(* are 0, 9 (one cycle more than a command word takes to feed) and 40      *)
(* (enough to feed and answer a backlog of three calls).                   *)
(***************************************************************************)
MemWrites == { [addr |-> U32Of(0), buf |-> <<17, 34>>],
               [addr |-> U32Of(1), buf |-> <<51>>] }
MemReads  == { [addr |-> U32Of(0), n |-> 2, max |-> 0],
               [addr |-> U32Of(0), n |-> 2, max |-> 9],
               [addr |-> U32Of(0), n |-> 2, max |-> 40],
               [addr |-> U32Of(1), n |-> 1, max |-> 0],
               [addr |-> U32Of(1), n |-> 1, max |-> 40] }
RegWrites == { [idx |-> REG_IDX_DEV_EN, data |-> U32Of(1)],
               [idx |-> REG_IDX_FB_ADDR, data |-> [hi |-> 1, lo |-> 5]] }
RegReads  == { [idx |-> REG_IDX_DEV_EN, max |-> 0],
               [idx |-> REG_IDX_DEV_EN, max |-> 40],
               [idx |-> REG_IDX_FB_ADDR, max |-> 40],
               [idx |-> REG_IDX_FB_CONFIG, max |-> 40] }
Waits     == { [n |-> 0, max |-> 0], [n |-> 1, max |-> 9], [n |-> 4, max |-> 40] }

\* the caller's buffer before a read: n bytes that came from no Read command
FreshBuf(n) == [i \in 1..n |-> [v |-> 238, rd |-> 0, pos |-> 0]]

NoCall ==
    [op |-> "none", addr |-> U32Of(0), idx |-> 0, data |-> U32Of(0), n |-> 0,
     max |-> 0, i |-> 0, c0 |-> 0, rd |-> 0, buf |-> <<>>]

Call(op, addr, idx, data, n, max, rd, buf) ==
    [op |-> op, addr |-> addr, idx |-> idx, data |-> data, n |-> n, max |-> max,
     i |-> 0, c0 |-> clocks, rd |-> rd, buf |-> buf]

\* the log entry of call c: its result, the buffer or value it hands back, the
\* clock counter and the length of output_queue when it returns
Entry(c, res, out, val, oq) ==
    [op |-> c.op, addr |-> c.addr, idx |-> c.idx, data |-> c.data, n |-> c.n,
     max |-> c.max, driven |-> c.i, c0 |-> c.c0, rd |-> c.rd, buf |-> c.buf,
     res |-> res, out |-> out, val |-> val, c1 |-> clocks, qlen |-> Len(oq)]

EncIdle ==
    [id |-> 0, addr |-> U32Of(0), size |-> U32Of(0), idx |-> 0, data |-> U32Of(0),
     memdone |-> FALSE, regdone |-> FALSE,
     mem |-> [id |-> 0, addr |-> 0, size |-> 0],
     reg |-> [id |-> 0, addr |-> 0, size |-> 0]]

\* the Device and the front end when no Device call is in progress
AppIdle ==
    [op |-> "none", stage |-> "none", dst |-> <<>>, l0 |-> 0, c0 |-> 0,
     dlog |-> <<>>, fn |-> [kind |-> "none"], sim |-> [at |-> "off"],
     destroys |-> 0]

Init ==
    /\ clocks = 0
    /\ input_queue = <<>>
    /\ output_queue = <<>>
    /\ dev = DevInit
    /\ pc = "idle"
    /\ cur = NoCall
    /\ log = <<>>
    /\ issued = 0
    /\ written = <<>>
    /\ fed = <<>>
    /\ produced = <<>>
    /\ returned = <<>>
    /\ stalls = 0
    /\ enc = EncIdle
    /\ handle = "HANDLE"
    /\ app = AppIdle

CanCall == pc = "idle" /\ Len(log) < MaxOps

\* write_bytes(addr, buf)
WriteBytes(w) ==
    /\ CanCall
    /\ input_queue' = write_bytes(input_queue, w.addr, w.buf)
    /\ written' = written
                  \o to_le_bytes(build_cmd(CMD_ID_WRITE, w.addr, U32Of(Len(w.buf))))
                  \o w.buf
    /\ log' = Append(log, Entry(Call("write_bytes", w.addr, 0, U32Of(0), Len(w.buf),
                                     0, 0, w.buf),
                                "Unit", <<>>, U32Of(0), output_queue))
    /\ UNCHANGED <<clocks, output_queue, dev, pc, cur, issued, fed, produced,
                   returned, stalls, enc, handle, app>>

\* write_reg(idx, data)
WriteReg(r) ==
    /\ CanCall
    /\ input_queue' = cmd_write_reg(input_queue, r.idx, r.data)
    /\ written' = written \o to_le_bytes(build_reg_cmd(CMD_ID_WRITE, r.idx, r.data))
    /\ log' = Append(log, Entry(Call("write_reg", U32Of(0), r.idx, r.data, 0, 0, 0,
                                     <<>>),
                                "Unit", <<>>, U32Of(0), output_queue))
    /\ UNCHANGED <<clocks, output_queue, dev, pc, cur, issued, fed, produced,
                   returned, stalls, enc, handle, app>>

\* read_bytes(addr, buf, max_wait_cycles): the Read command, then the wait
ReadBytesCall(r) ==
    /\ CanCall
    /\ input_queue' = cmd_read_bytes(input_queue, r.addr, U32Of(r.n))
    /\ written' = written \o to_le_bytes(build_cmd(CMD_ID_READ, r.addr, U32Of(r.n)))
    /\ issued' = issued + 1
    /\ cur' = Call("read_bytes", r.addr, 0, U32Of(0), r.n, r.max, issued + 1,
                   FreshBuf(r.n))
    /\ pc' = "wait"
    /\ UNCHANGED <<clocks, output_queue, dev, log, fed, produced, returned, stalls,
                   enc, handle, app>>

\* read_reg(idx, max_wait_cycles): the register Read command, then the wait
ReadRegCall(r) ==
    /\ CanCall
    /\ input_queue' = cmd_read_reg(input_queue, r.idx)
    /\ written' = written \o to_le_bytes(build_reg_cmd(CMD_ID_READ, r.idx, U32_ALL_ONES))
    /\ issued' = issued + 1
    /\ cur' = Call("read_reg", U32Of(0), r.idx, U32Of(0), 4, r.max, issued + 1, <<>>)
    /\ pc' = "wait"
    /\ UNCHANGED <<clocks, output_queue, dev, log, fed, produced, returned, stalls,
                   enc, handle, app>>

\* wait_for_output(num_bytes, max_wait_cycles), called by the client itself
WaitForOutputCall(w) ==
    /\ CanCall
    /\ cur' = Call("wait_for_output", U32Of(0), 0, U32Of(0), w.n, w.max, 0, <<>>)
    /\ pc' = "wait"
    /\ UNCHANGED <<clocks, input_queue, output_queue, dev, log, issued, written, fed,
                   produced, returned, stalls, enc, handle, app>>

\* one iteration of the loop of wait_for_output: clock()
WaitClock ==
    /\ pc = "wait"
    /\ wait_continues(Len(output_queue), cur.n, cur.i, cur.max)
    /\ \E status \in QueryProtoBridgeDataStatus(dev, stalls) : clock(status)
    /\ cur' = [cur EXCEPT !.i = @ + 1]
    /\ UNCHANGED <<pc, log, issued, written, returned, enc, handle, app>>

WaitOver == pc = "wait" /\ ~wait_continues(Len(output_queue), cur.n, cur.i, cur.max)

\* wait_for_output returns to the client
WaitForOutputReturn ==
    /\ WaitOver
    /\ cur.op = "wait_for_output"
    /\ log' = Append(log, Entry(cur, wait_result(Len(output_queue), cur.n), <<>>,
                                U32Of(0), output_queue))
    /\ pc' = "idle"
    /\ cur' = NoCall
    /\ UNCHANGED <<clocks, input_queue, output_queue, dev, issued, written, fed,
                   produced, returned, stalls, enc, handle, app>>

\* read_bytes after its wait: read_exact(buf) on Ok, the error passed on otherwise
ReadBytesReturn ==
    /\ WaitOver
    /\ cur.op = "read_bytes"
    /\ LET res == wait_result(Len(output_queue), cur.n)
           r   == read_exact(output_queue, cur.n)
       IN  IF res = "Ok"
           THEN /\ r.ok
                /\ output_queue' = r.rest
                /\ returned' = returned \o r.bytes
                /\ log' = Append(log, Entry(cur, "Ok", r.bytes, U32Of(0), r.rest))
           ELSE /\ log' = Append(log, Entry(cur, "Timeout", cur.buf, U32Of(0),
                                            output_queue))
                /\ output_queue' = read_timed_out(output_queue)
                /\ UNCHANGED returned
    /\ pc' = "idle"
    /\ cur' = NoCall
    /\ UNCHANGED <<clocks, input_queue, dev, issued, written, fed, produced, stalls,
                   enc, handle, app>>

\* read_reg after its wait: read_exact of 4 bytes and from_le_bytes on Ok
ReadRegReturn ==
    /\ WaitOver
    /\ cur.op = "read_reg"
    /\ LET res == wait_result(Len(output_queue), 4)
           r   == read_exact(output_queue, 4)
       IN  IF res = "Ok"
           THEN /\ r.ok
                /\ output_queue' = r.rest
                /\ returned' = returned \o r.bytes
                /\ log' = Append(log, Entry(cur, "Ok", r.bytes,
                                            u32_from_le_bytes(Vals(r.bytes)), r.rest))
           ELSE /\ log' = Append(log, Entry(cur, "Timeout", <<>>, U32Of(0),
                                            output_queue))
                /\ output_queue' = read_timed_out(output_queue)
                /\ UNCHANGED returned
    /\ pc' = "idle"
    /\ cur' = NoCall
    /\ UNCHANGED <<clocks, input_queue, dev, issued, written, fed, produced, stalls,
                   enc, handle, app>>

Next ==
    \/ \E w \in MemWrites : WriteBytes(w)
    \/ \E r \in RegWrites : WriteReg(r)
    \/ \E r \in MemReads : ReadBytesCall(r)
    \/ \E r \in RegReads : ReadRegCall(r)
    \/ \E w \in Waits : WaitForOutputCall(w)
    \/ WaitClock
    \/ WaitForOutputReturn
    \/ ReadBytesReturn
    \/ ReadRegReturn

Spec == Init /\ [][Next]_vars

(***************************************************************************)
(* The command encoders on their own: the inputs are drawn in the initial  *)
(* state and each encoder is applied once.                                 *)
(***************************************************************************)
EncIds   == {CMD_ID_READ, CMD_ID_WRITE}
EncAddrs == { U32Of(0), U32Of(1), U32Of(REG_SENTINEL), U32Of(REG_SENTINEL + 8),
              U32Of(FIELD30 - 1), [hi |-> 1, lo |-> 0], U32_ALL_ONES }
EncSizes == { U32Of(0), U32Of(2), U32Of(FIELD30 - 1), [hi |-> 1, lo |-> 2] }
EncIdxs  == { REG_IDX_DEV_EN, REG_IDX_FB_ADDR, REG_IDX_FB_CONFIG, 1024, 16384, 65535 }
EncDatas == { U32Of(0), U32Of(1), U32Of(2), [hi |-> 1, lo |-> 1], U32_ALL_ONES }

InitEnc ==
    /\ clocks = 0
    /\ input_queue = <<>>
    /\ output_queue = <<>>
    /\ dev = DevInit
    /\ pc = "enc"
    /\ cur = NoCall
    /\ log = <<>>
    /\ issued = 0
    /\ written = <<>>
    /\ fed = <<>>
    /\ produced = <<>>
    /\ returned = <<>>
    /\ stalls = 0
    /\ handle = "HANDLE"
    /\ app = AppIdle
    /\ \E id \in EncIds, addr \in EncAddrs, size \in EncSizes, idx \in EncIdxs,
          data \in EncDatas :
          enc = [EncIdle EXCEPT !.id = id, !.addr = addr, !.size = size,
                                !.idx = idx, !.data = data]

EncodeMem ==
    /\ pc = "enc"
    /\ ~enc.memdone
    /\ enc' = [enc EXCEPT !.memdone = TRUE, !.mem = build_cmd(enc.id, enc.addr, enc.size)]
    /\ UNCHANGED <<clocks, input_queue, output_queue, dev, pc, cur, log, issued,
                   written, fed, produced, returned, stalls, handle, app>>

EncodeReg ==
    /\ pc = "enc"
    /\ ~enc.regdone
    /\ enc' = [enc EXCEPT !.regdone = TRUE,
                          !.reg = build_reg_cmd(enc.id, enc.idx, enc.data)]
    /\ UNCHANGED <<clocks, input_queue, output_queue, dev, pc, cur, log, issued,
                   written, fed, produced, returned, stalls, handle, app>>

NextEnc == EncodeMem \/ EncodeReg

SpecEnc == InitEnc /\ [][NextEnc]_vars

(***************************************************************************)
(* Properties.                                                             *)
(***************************************************************************)
IsRead(e) == e.op \in {"read_bytes", "read_reg"}
Waited(e) == e.op \in {"read_bytes", "read_reg", "wait_for_output"}
IsPrefix(s, t) == Len(s) <= Len(t) /\ SubSeq(t, 1, Len(s)) = s

\* the response of the k-th Read command, n bytes long, by its history fields
OwnResponse(out, k, n) ==
    /\ Len(out) = n
    /\ \A j \in 1..Len(out) : out[j].rd = k /\ out[j].pos = j

\* a write_bytes then a read_bytes of the same range as the first two calls
RoundTripCalls ==
    /\ Len(log) >= 2
    /\ log[1].op = "write_bytes"
    /\ log[2].op = "read_bytes"
    /\ log[2].addr = log[1].addr
    /\ log[2].n = log[1].n

\* C1: on a fresh bridge, write_bytes(addr, B) followed by read_bytes(addr, out,
\* budget) hands back out = B whenever it returns Ok, and it returns Ok when the
\* budget covers every queued byte, the response and the channel's stalls.
C1_RoundTrip ==
    RoundTripCalls =>
        /\ log[2].res = "Ok" => Vals(log[2].out) = log[1].buf
        /\ log[2].max >= (8 + log[1].n + 8) + log[2].n + MaxStall => log[2].res = "Ok"

C1_Witness ==
    /\ RoundTripCalls
    /\ log[2].res = "Ok"
    /\ Vals(log[2].out) = <<17, 34>>

\* C2: while every read_bytes/read_reg call so far returned Ok, each of them
\* returned exactly the response the device produced for its own Read command
\* (the k-th call the whole response of the k-th Read, in order), and no byte of
\* such a response is left anywhere.
C2_ResponseOrdering ==
    (\A i \in 1..Len(log) : IsRead(log[i]) => log[i].res = "Ok") =>
        /\ \A i \in 1..Len(log) :
              IsRead(log[i]) => OwnResponse(log[i].out, log[i].rd, log[i].n)
        /\ \A i \in 1..Len(log) : \A j \in 1..Len(output_queue) :
              IsRead(log[i]) => output_queue[j].rd # log[i].rd
        /\ \A i \in 1..Len(log) : \A j \in 1..Len(dev.out) :
              IsRead(log[i]) => dev.out[j].rd # log[i].rd

C2_Witness ==
    /\ Len(log) = 3
    /\ log[1].op = "write_bytes"
    /\ log[2].op = "read_bytes" /\ log[2].res = "Ok" /\ log[2].n = 2
    /\ log[3].op = "read_reg" /\ log[3].res = "Ok" /\ log[3].rd = 2

\* C3 (as claimed): a read_bytes of n >= 1 bytes with a budget of 0 returns
\* Timeout and leaves the caller's buffer as it was.
C3_ZeroBudgetTimesOut ==
    \A i \in 1..Len(log) :
        (log[i].op = "read_bytes" /\ log[i].n >= 1 /\ log[i].max = 0) =>
            (log[i].res = "Timeout" /\ log[i].out = log[i].buf)

\* C4 (as claimed): also after a Timeout, every read_bytes/read_reg that returns
\* Ok returns the response to its own Read command.
C4_OkReadsOwnResponse ==
    \A i \in 1..Len(log) :
        (IsRead(log[i]) /\ log[i].res = "Ok") =>
            OwnResponse(log[i].out, log[i].rd, log[i].n)

\* C5: every wait drives at most max_wait_cycles cycles, each counted in
\* clocks; when it returns Timeout it has driven exactly max_wait_cycles cycles
\* and the pending-output queue holds fewer than num_bytes bytes.
C5_BoundedWait ==
    /\ pc = "wait" => (cur.i <= cur.max /\ clocks = cur.c0 + cur.i)
    /\ \A i \in 1..Len(log) :
          Waited(log[i]) =>
              /\ log[i].driven <= log[i].max
              /\ log[i].c1 = log[i].c0 + log[i].driven
              /\ log[i].res = "Timeout" =>
                    /\ log[i].driven = log[i].max
                    /\ log[i].c1 = log[i].c0 + log[i].max
                    /\ log[i].qlen < log[i].n

C5_Witness ==
    \E i \in 1..Len(log) :
        /\ Waited(log[i])
        /\ log[i].res = "Timeout"
        /\ log[i].driven = 9
        /\ log[i].n = 2
        /\ log[i].qlen = 1

\* C6: clocks starts at 0, never decreases, and always equals the number of
\* cycles stepped on the channel, idle cycles included.
C6_ClockCounter ==
    /\ clocks = 0
    /\ [][clocks' >= clocks]_vars
    /\ [](clocks = dev.cycles)

C6_Witness ==
    /\ clocks > Len(fed) + Len(produced)
    /\ Len(fed) > 0
    /\ Len(produced) > 0

\* C7 (as claimed): write_reg(R, v) followed by read_reg(R, budget) returns v.
C7_RegCoherence ==
    (/\ Len(log) >= 2
     /\ log[1].op = "write_reg"
     /\ log[2].op = "read_reg"
     /\ log[2].idx = log[1].idx
     /\ log[2].res = "Ok") => log[2].val = log[1].data

\* C8: the bytes fed to the channel are a prefix of all bytes written, in call
\* order; the bytes returned by reads followed by the pending-output queue are
\* the bytes the channel produced, in production order.
C8_FifoOrder ==
    /\ IsPrefix(fed, written)
    /\ returned \o output_queue = produced

C8_Witness ==
    /\ Len(fed) > 0
    /\ Len(fed) < Len(written)
    /\ Len(returned) > 0
    /\ output_queue # <<>>

\* C9 (as claimed): the encoders emit no command word for an address, size or
\* data value that does not fit its 30-bit subfield.
C9_NoTruncatedField ==
    /\ enc.memdone => (Fits30(enc.addr) /\ Fits30(enc.size))
    /\ enc.regdone => Fits30(enc.data)

\* C10 (as claimed): a memory command word and a register command word of the
\* same operation kind are never equal.
C10_SpacesApart ==
    (enc.memdone /\ enc.regdone) => enc.mem # enc.reg

(***************************************************************************)
(* Device (src/src/device.rs): the facade over one ProtoBridge.            *)
(***************************************************************************)
MaxDevOps == 2     \* Device calls made on one Device
MaxWait == 30      \* the cycles WAIT_INFINITE_CYCLES (0xffffffff) is scaled to

\* the budget the Device passes to every read
WAIT_INFINITE_CYCLES == MaxWait

\* write_reg(idx, data)
write_reg(iq, idx, data) == cmd_write_reg(iq, idx, data)

\* an enable() whose command goes ahead of the bytes already queued
enable_first(iq) ==
    to_le_bytes(build_reg_cmd(CMD_ID_WRITE, REG_IDX_DEV_EN, U32Of(1))) \o iq

\* Device::enable and Device::disable
enable(iq) == write_reg(iq, REG_IDX_DEV_EN, U32Of(1))
disable(iq) == write_reg(iq, REG_IDX_DEV_EN, U32Of(0))

\* `1 << k` in u32, for k < 31
RECURSIVE Shl1(_)
Shl1(k) == IF k = 0 THEN 1 ELSE 2 * Shl1(k - 1)

\* `x >> 3` for a u32 x
Shr3(x) == U32Of(x.hi * 134217728 + x.lo \div 8)

\* `x & 0x7` for a u32 x
And7(x) == BitAnd(x.lo, 7)

\* a width decoded without the + 1 on its exponent
fb_width_unbiased(fb_config) == Shl1(And7(fb_config))

\* query_framebuffer_size: the decode of the FB_CONFIG word
fb_width(fb_config) == Shl1(And7(fb_config) + 1)

\* a height decoded from the width's bits: the shift by 3 left out
fb_height_unshifted(fb_config) == Shl1(And7(fb_config) + 1)

fb_height(fb_config) == Shl1(And7(Shr3(fb_config)) + 1)

\* a halt test with its branches swapped
query_is_halted_swapped(res, reg) ==
    IF res = "Ok"
    THEN [res |-> "Ok", ret |-> IF reg # U32Of(0) THEN "true" ELSE "false"]
    ELSE [res |-> res, ret |-> "none"]

\* query_is_halted: what it returns for the result of its read_reg
query_is_halted(res, reg) ==
    IF res = "Ok"
    THEN [res |-> "Ok", ret |-> IF reg # U32Of(0) THEN "false" ELSE "true"]
    ELSE [res |-> res, ret |-> "none"]

\* a byte count that forgets the four bytes of a pixel
fb_num_pixels_unscaled(w, h) == w * h

\* dump_framebuffer: (fb_width * fb_height * 4) as usize; at most 2^18
fb_num_pixels(w, h) == w * h * 4

\* dump_framebuffer: the test that the destination buffer is large enough
dump_fits(num_pixels, dst_len) == num_pixels <= dst_len

\* The file behind elf_path as load_elf sees it: whether fs::read succeeds,
\* what Object::parse makes of the bytes ("error", "elf", or another object
\* kind), and the program headers of an ELF with the file bytes
\* buffer[p_offset .. p_offset + p_filesz] of each (data) and `p_paddr as u32`.
Images ==
    { [readable |-> FALSE, object |-> "none", headers |-> <<>>],
      [readable |-> TRUE, object |-> "error", headers |-> <<>>],
      [readable |-> TRUE, object |-> "archive", headers |-> <<>>],
      [readable |-> TRUE, object |-> "elf",
       headers |-> << [p_type |-> "PT_NOTE", p_paddr |-> U32Of(0), data |-> <<9>>],
                      [p_type |-> "PT_LOAD", p_paddr |-> U32Of(1), data |-> <<17>>] >>],
      [readable |-> TRUE, object |-> "elf",
       headers |-> << [p_type |-> "PT_LOAD", p_paddr |-> U32Of(0), data |-> <<17, 34>>],
                      [p_type |-> "PT_LOAD", p_paddr |-> U32Of(2), data |-> <<51, 68>>] >>] }

\* load_elf: the loop over elf.program_headers
RECURSIVE load_segments(_, _)
load_segments(iq, headers) ==
    IF headers = <<>> THEN iq
    ELSE LET header == Head(headers) IN
         load_segments(IF header.p_type = "PT_LOAD"
                       THEN write_bytes(iq, header.p_paddr, header.data)
                       ELSE iq,
                       Tail(headers))

\* a load_elf that starts an upload before it rejects an object that is no ELF
load_elf_upload_first(iq, image) ==
    IF ~image.readable THEN [res |-> "IoError", iq |-> iq]
    ELSE IF image.object = "error" THEN [res |-> "ParseError", iq |-> iq]
    ELSE IF image.object = "elf"
         THEN [res |-> "Ok", iq |-> load_segments(iq, image.headers)]
         ELSE [res |-> "Malformed", iq |-> cmd_write_bytes(iq, U32Of(0), U32Of(0))]

\* load_elf: its result and the input queue it leaves
load_elf(iq, image) ==
    IF ~image.readable THEN [res |-> "IoError", iq |-> iq]
    ELSE IF image.object = "error" THEN [res |-> "ParseError", iq |-> iq]
    ELSE IF image.object = "elf"
         THEN [res |-> "Ok", iq |-> load_segments(iq, image.headers)]
         ELSE [res |-> "Malformed", iq |-> iq]

\* the destination buffers a caller hands to dump_framebuffer
DstLens == {15, 16, 17}

\* the reset values of FB_CONFIG and FB_ADDR the hardware model may come up with
DevResets == { [fb_config |-> 0, fb_addr |-> 2], [fb_config |-> 1, fb_addr |-> 0] }

\* the record of a completed Device call: what it was given, what it returned,
\* and the stretch log[l0 + 1 .. l1] of bridge calls it made
DEntry(op, image, res, ret, w, h, dst) ==
    [op |-> op, image |-> image, dst0 |-> app.dst, res |-> res, ret |-> ret,
     w |-> w, h |-> h, dst |-> dst, l0 |-> app.l0, l1 |-> Len(log),
     c0 |-> app.c0, c1 |-> clocks]

NoImage == [readable |-> FALSE, object |-> "none", headers |-> <<>>]

DevCanCall == pc = "idle" /\ app.op = "none" /\ Len(app.dlog) < MaxDevOps

\* the Device method op is entered
DEntered(op, stage, dst) ==
    [app EXCEPT !.op = op, !.stage = stage, !.dst = dst,
                !.l0 = Len(log), !.c0 = clocks]

DEnter(op, stage, dst) == app' = DEntered(op, stage, dst)

\* the Device method in progress returns
DReturn(e) ==
    app' = [app EXCEPT !.op = "none", !.stage = "none", !.dst = <<>>,
                       !.dlog = Append(@, e)]

\* self.bridge.read_reg(idx, max_wait_cycles): the command, then the wait
bridge_read_reg(idx, max_wait_cycles) ==
    /\ input_queue' = cmd_read_reg(input_queue, idx)
    /\ written' = written \o to_le_bytes(build_reg_cmd(CMD_ID_READ, idx, U32_ALL_ONES))
    /\ issued' = issued + 1
    /\ cur' = Call("read_reg", U32Of(0), idx, U32Of(0), 4, max_wait_cycles,
                   issued + 1, <<>>)
    /\ pc' = "wait"
    /\ UNCHANGED <<clocks, output_queue, dev, log, fed, produced, returned, stalls,
                   enc, handle>>

\* self.bridge.read_bytes(addr, buf, max_wait_cycles): the command, then the wait
bridge_read_bytes(addr, buf, max_wait_cycles) ==
    /\ input_queue' = cmd_read_bytes(input_queue, addr, U32Of(Len(buf)))
    /\ written' = written \o to_le_bytes(build_cmd(CMD_ID_READ, addr, U32Of(Len(buf))))
    /\ issued' = issued + 1
    /\ cur' = Call("read_bytes", addr, 0, U32Of(0), Len(buf), max_wait_cycles,
                   issued + 1, buf)
    /\ pc' = "wait"
    /\ UNCHANGED <<clocks, output_queue, dev, log, fed, produced, returned, stalls,
                   enc, handle>>

\* a Device method that only queues bytes: the queue it leaves is iq
bridge_queued(iq) ==
    /\ input_queue' = iq
    /\ written' = written \o SubSeq(iq, Len(input_queue) + 1, Len(iq))
    /\ UNCHANGED <<clocks, output_queue, dev, pc, cur, log, issued, fed, produced,
                   returned, stalls, enc, handle>>

\* a step of a Device method that touches the Device only
bridge_untouched ==
    UNCHANGED <<clocks, input_queue, output_queue, dev, pc, cur, log, issued,
                written, fed, produced, returned, stalls, enc, handle>>

\* the bridge call that has just returned to the Device method in progress
LastCall == log[Len(log)]

\* Device::enable()
Enable ==
    /\ DevCanCall
    /\ bridge_queued(enable(input_queue))
    /\ app' = [app EXCEPT !.dlog = Append(@,
                  [DEntry("enable", NoImage, "Unit", "none", 0, 0, <<>>)
                      EXCEPT !.l0 = Len(log), !.c0 = clocks])]

\* Device::disable()
Disable ==
    /\ DevCanCall
    /\ bridge_queued(disable(input_queue))
    /\ app' = [app EXCEPT !.dlog = Append(@,
                  [DEntry("disable", NoImage, "Unit", "none", 0, 0, <<>>)
                      EXCEPT !.l0 = Len(log), !.c0 = clocks])]

\* Device::load_elf(elf_path)
LoadElf(image) ==
    /\ DevCanCall
    /\ bridge_queued(load_elf(input_queue, image).iq)
    /\ app' = [app EXCEPT !.dlog = Append(@,
                  [DEntry("load_elf", image, load_elf(input_queue, image).res,
                          "none", 0, 0, <<>>)
                      EXCEPT !.l0 = Len(log), !.c0 = clocks])]

\* Device::query_is_halted(): the read of the enable register
QueryIsHalted ==
    /\ DevCanCall
    /\ bridge_read_reg(REG_IDX_DEV_EN, WAIT_INFINITE_CYCLES)
    /\ DEnter("query_is_halted", "reg", <<>>)

QueryIsHaltedReturn ==
    /\ pc = "idle"
    /\ app.op = "query_is_halted"
    /\ LET r == query_is_halted(LastCall.res, LastCall.val) IN
       DReturn(DEntry("query_is_halted", NoImage, r.res, r.ret, 0, 0, <<>>))
    /\ bridge_untouched

\* Device::query_framebuffer_size(): the read of FB_CONFIG
QueryFramebufferSize ==
    /\ DevCanCall
    /\ bridge_read_reg(REG_IDX_FB_CONFIG, WAIT_INFINITE_CYCLES)
    /\ DEnter("query_framebuffer_size", "reg", <<>>)

QueryFramebufferSizeReturn ==
    /\ pc = "idle"
    /\ app.op = "query_framebuffer_size"
    /\ IF LastCall.res = "Ok"
       THEN DReturn(DEntry("query_framebuffer_size", NoImage, "Ok", "none",
                           fb_width(LastCall.val), fb_height(LastCall.val), <<>>))
       ELSE DReturn(DEntry("query_framebuffer_size", NoImage, LastCall.res, "none",
                           0, 0, <<>>))
    /\ bridge_untouched

\* Device::dump_framebuffer(dst): it starts with query_framebuffer_size()
DumpFramebuffer(n) ==
    /\ DevCanCall
    /\ bridge_read_reg(REG_IDX_FB_CONFIG, WAIT_INFINITE_CYCLES)
    /\ DEnter("dump_framebuffer", "size", FreshBuf(n))

\* dump_framebuffer once the size is known: the test of dst, then the read of
\* FB_ADDR or the BufferTooSmall error
DumpAfterSize ==
    /\ pc = "idle"
    /\ app.op = "dump_framebuffer"
    /\ app.stage = "size"
    /\ LET w == fb_width(LastCall.val)
           h == fb_height(LastCall.val)
       IN  IF LastCall.res # "Ok"
           THEN /\ DReturn(DEntry("dump_framebuffer", NoImage, LastCall.res, "none",
                                  0, 0, app.dst))
                /\ bridge_untouched
           ELSE IF dump_fits(fb_num_pixels(w, h), Len(app.dst))
           THEN /\ bridge_read_reg(REG_IDX_FB_ADDR, WAIT_INFINITE_CYCLES)
                /\ app' = [app EXCEPT !.stage = "addr"]
           ELSE /\ DReturn(DEntry("dump_framebuffer", NoImage, "BufferTooSmall",
                                  "none", w, h, app.dst))
                /\ bridge_untouched

\* dump_framebuffer once FB_ADDR is read: read_bytes(fb_addr, dst, ...)
DumpAfterAddr ==
    /\ pc = "idle"
    /\ app.op = "dump_framebuffer"
    /\ app.stage = "addr"
    /\ IF LastCall.res # "Ok"
       THEN /\ DReturn(DEntry("dump_framebuffer", NoImage, LastCall.res, "none",
                              0, 0, app.dst))
            /\ bridge_untouched
       ELSE /\ bridge_read_bytes(LastCall.val, app.dst, WAIT_INFINITE_CYCLES)
            /\ app' = [app EXCEPT !.stage = "data"]

\* dump_framebuffer returns what its read_bytes returned
DumpReturn ==
    /\ pc = "idle"
    /\ app.op = "dump_framebuffer"
    /\ app.stage = "data"
    /\ DReturn(DEntry("dump_framebuffer", NoImage, LastCall.res, "none", 0, 0,
                      LastCall.out))
    /\ bridge_untouched

InitDev ==
    /\ clocks = 0
    /\ input_queue = <<>>
    /\ output_queue = <<>>
    /\ \E r \in DevResets :
          dev = [DevInit EXCEPT !.regs[REG_IDX_FB_CONFIG] = r.fb_config,
                                !.regs[REG_IDX_FB_ADDR] = r.fb_addr]
    /\ pc = "idle"
    /\ cur = NoCall
    /\ log = <<>>
    /\ issued = 0
    /\ written = <<>>
    /\ fed = <<>>
    /\ produced = <<>>
    /\ returned = <<>>
    /\ stalls = 0
    /\ enc = EncIdle
    /\ handle = "HANDLE"
    /\ app = AppIdle

NextDev ==
    \/ Enable
    \/ Disable
    \/ \E image \in Images : LoadElf(image)
    \/ QueryIsHalted
    \/ QueryIsHaltedReturn
    \/ QueryFramebufferSize
    \/ QueryFramebufferSizeReturn
    \/ \E n \in DstLens : DumpFramebuffer(n)
    \/ DumpAfterSize
    \/ DumpAfterAddr
    \/ DumpReturn
    \/ WaitClock
    \/ ReadBytesReturn
    \/ ReadRegReturn

SpecDev == InitDev /\ [][NextDev]_vars

(***************************************************************************)
(* Properties of the Device.                                               *)
(***************************************************************************)
IsDump(e) == e.op = "dump_framebuffer"

\* the bridge calls a completed Device call made
CallsOf(e) == (e.l0 + 1)..e.l1

\* the FB_CONFIG word a dump_framebuffer call read, when its first read was Ok
SizeRead(e) == e.l1 > e.l0 /\ log[e.l0 + 1].res = "Ok"
WidthOf(e) == fb_width(log[e.l0 + 1].val)
HeightOf(e) == fb_height(log[e.l0 + 1].val)

\* C11: a dump_framebuffer(dst) whose dst is shorter than width*height*4 bytes
\* (width, height as decoded from the FB_CONFIG word it read) returns
\* BufferTooSmall, leaves every byte of dst as it was, and issues no memory Read
\* command: its only bridge call is the register read of FB_CONFIG.
C11_BufferTooSmall ==
    /\ \A i \in 1..Len(app.dlog) :
          LET e == app.dlog[i] IN
          (IsDump(e) /\ SizeRead(e) /\ Len(e.dst0) < WidthOf(e) * HeightOf(e) * 4) =>
              /\ e.res = "BufferTooSmall"
              /\ e.dst = e.dst0
              /\ e.l1 = e.l0 + 1
              /\ log[e.l1].op = "read_reg"
              /\ log[e.l1].idx = REG_IDX_FB_CONFIG
    /\ (app.op = "dump_framebuffer" /\ app.stage \in {"addr", "data"}) =>
          /\ log[app.l0 + 1].res = "Ok"
          /\ Len(app.dst) >= fb_width(log[app.l0 + 1].val)
                              * fb_height(log[app.l0 + 1].val) * 4

C11_Witness ==
    \E i \in 1..Len(app.dlog) :
        /\ IsDump(app.dlog[i])
        /\ app.dlog[i].res = "BufferTooSmall"
        /\ Len(app.dlog[i].dst0) = 15
        /\ app.dlog[i].w = 2
        /\ app.dlog[i].h = 2

\* C12 (as claimed): a dump_framebuffer that returns Ok has issued exactly one
\* memory Read command, at the address it read from FB_ADDR, of size
\* width*height*4, and has waited for exactly that many bytes.
C12_DumpExtent ==
    \A i \in 1..Len(app.dlog) :
        LET e == app.dlog[i] IN
        (IsDump(e) /\ e.res = "Ok") =>
            /\ Cardinality({j \in CallsOf(e) : log[j].op = "read_bytes"}) = 1
            /\ log[e.l1].op = "read_bytes"
            /\ log[e.l1].addr = log[e.l0 + 2].val
            /\ log[e.l1].n = WidthOf(e) * HeightOf(e) * 4

\* C13: whenever query_is_halted returns Ok, it returns true exactly when the
\* value its read of the enable register (index 0) returned is zero, and false
\* when that value is nonzero.
C13_HaltedReading ==
    \A i \in 1..Len(app.dlog) :
        LET e == app.dlog[i] IN
        (e.op = "query_is_halted" /\ e.res = "Ok") =>
            /\ log[e.l1].op = "read_reg"
            /\ log[e.l1].idx = REG_IDX_DEV_EN
            /\ log[e.l1].res = "Ok"
            /\ e.ret = "true" <=> (log[e.l1].val.hi = 0 /\ log[e.l1].val.lo = 0)
            /\ e.ret = "false" <=> (log[e.l1].val.hi > 0 \/ log[e.l1].val.lo > 0)

C13_Witness ==
    /\ Len(app.dlog) = 2
    /\ app.dlog[1].op = "enable"
    /\ app.dlog[2].op = "query_is_halted"
    /\ app.dlog[2].res = "Ok"
    /\ app.dlog[2].ret = "false"
    /\ log[app.dlog[2].l1].val = U32Of(1)

(***************************************************************************)
(* enable() / disable() once and twice, compared.  The calls before, the   *)
(* call under test and the read after it are drawn in the initial state;   *)
(* each arm queues its calls on a fresh Device and the queued bytes are    *)
(* delivered to the hardware model in order.                               *)
(***************************************************************************)
\* the hardware model after the bytes are delivered to it, in order
RECURSIVE DevFeed(_, _)
DevFeed(d, bytes) ==
    IF bytes = <<>> THEN d ELSE DevFeed(DevInput(d, Head(bytes)), Tail(bytes))

IdemBefore == { <<>>, <<"enable">>, <<"disable">>, <<"load_elf">> }
IdemOps    == { "enable", "disable" }
IdemAfter  == { "read_en", "read_fb_addr", "read_mem" }

\* the image load_elf is given in this comparison: two loadable segments
IdemImage == CHOOSE image \in Images : Len(image.headers) = 2
                                       /\ image.headers[1].p_type = "PT_LOAD"

\* the input queue after the Device calls named in ops, made in order
RECURSIVE QueueOf(_, _)
QueueOf(iq, ops) ==
    IF ops = <<>> THEN iq
    ELSE QueueOf(CASE Head(ops) = "enable"       -> enable(iq)
                   [] Head(ops) = "disable"      -> disable(iq)
                   [] Head(ops) = "load_elf"     -> load_elf(iq, IdemImage).iq
                   [] Head(ops) = "read_en"      -> cmd_read_reg(iq, REG_IDX_DEV_EN)
                   [] Head(ops) = "read_fb_addr" -> cmd_read_reg(iq, REG_IDX_FB_ADDR)
                   [] Head(ops) = "read_mem"     -> cmd_read_bytes(iq, U32Of(0), U32Of(2)),
                 Tail(ops))

\* what an arm observes: the hardware model once the calls' bytes are delivered,
\* and the response to the read that follows
Observe(d0, ops, after) ==
    LET d1 == DevFeed(d0, QueueOf(<<>>, ops))
        d2 == DevFeed(d1, QueueOf(<<>>, <<after>>))
    IN  [state |-> d1, read |-> d2.out]

InitIdem ==
    /\ clocks = 0
    /\ input_queue = <<>>
    /\ output_queue = <<>>
    /\ dev = DevInit
    /\ pc = "fn"
    /\ cur = NoCall
    /\ log = <<>>
    /\ issued = 0
    /\ written = <<>>
    /\ fed = <<>>
    /\ produced = <<>>
    /\ returned = <<>>
    /\ stalls = 0
    /\ enc = EncIdle
    /\ handle = "HANDLE"
    /\ \E r \in DevResets, before \in IdemBefore, op \in IdemOps, after \in IdemAfter :
          app = [AppIdle EXCEPT !.fn =
                    [kind |-> "idem",
                     d0 |-> [DevInit EXCEPT !.regs[REG_IDX_FB_CONFIG] = r.fb_config,
                                            !.regs[REG_IDX_FB_ADDR] = r.fb_addr],
                     before |-> before, op |-> op, after |-> after,
                     oncedone |-> FALSE, twicedone |-> FALSE,
                     once |-> Observe(DevInit, <<>>, after),
                     twice |-> Observe(DevInit, <<>>, after)]]

\* the arm that makes the call once
CallOnce ==
    /\ pc = "fn"
    /\ ~app.fn.oncedone
    /\ app' = [app EXCEPT !.fn.oncedone = TRUE,
                          !.fn.once = Observe(app.fn.d0,
                                              app.fn.before \o <<app.fn.op>>,
                                              app.fn.after)]
    /\ bridge_untouched

\* the arm that makes the call twice in a row
CallTwice ==
    /\ pc = "fn"
    /\ ~app.fn.twicedone
    /\ app' = [app EXCEPT !.fn.twicedone = TRUE,
                          !.fn.twice = Observe(app.fn.d0,
                                               app.fn.before
                                                  \o <<app.fn.op, app.fn.op>>,
                                               app.fn.after)]
    /\ bridge_untouched

NextIdem == CallOnce \/ CallTwice

SpecIdem == InitIdem /\ [][NextIdem]_vars

\* C14: enable() called twice in a row (likewise disable()) leaves the device,
\* once the queued bytes are delivered, in the state one call leaves it in: the
\* same enable register (and every other register, memory cell and decoder
\* state), and the same response to a read that follows.
C14_Idempotent ==
    (app.fn.oncedone /\ app.fn.twicedone) =>
        /\ app.fn.twice.state.regs[REG_IDX_DEV_EN]
              = app.fn.once.state.regs[REG_IDX_DEV_EN]
        /\ app.fn.twice.state = app.fn.once.state
        /\ app.fn.twice.read = app.fn.once.read

C14_Witness ==
    /\ app.fn.oncedone
    /\ app.fn.twicedone
    /\ app.fn.op = "enable"
    /\ app.fn.before = <<"disable">>
    /\ app.fn.after = "read_en"
    /\ app.fn.twice.state.regs[REG_IDX_DEV_EN] = 1
    /\ Vals(app.fn.twice.read) = <<1, 0, 0, 0>>

(***************************************************************************)
(* The decode of query_framebuffer_size on its own: the FB_CONFIG word is  *)
(* drawn in the initial state and decoded once.                            *)
(***************************************************************************)
\* FB_CONFIG words: every pattern of the low 7 bits, with the bits above them
\* clear or set
FbConfigs ==
    [hi : 0..3, lo : (0..127) \cup {FIELD30 - 64 + k : k \in 0..63}]

InitFb ==
    /\ clocks = 0
    /\ input_queue = <<>>
    /\ output_queue = <<>>
    /\ dev = DevInit
    /\ pc = "fn"
    /\ cur = NoCall
    /\ log = <<>>
    /\ issued = 0
    /\ written = <<>>
    /\ fed = <<>>
    /\ produced = <<>>
    /\ returned = <<>>
    /\ stalls = 0
    /\ enc = EncIdle
    /\ handle = "HANDLE"
    /\ \E c \in FbConfigs :
          app = [AppIdle EXCEPT !.fn = [kind |-> "fb", fb_config |-> c,
                                        done |-> FALSE, w |-> 0, h |-> 0]]

\* query_framebuffer_size after its read_reg returned Ok(fb_config)
DecodeFb ==
    /\ pc = "fn"
    /\ ~app.fn.done
    /\ app' = [app EXCEPT !.fn.done = TRUE,
                          !.fn.w = fb_width(app.fn.fb_config),
                          !.fn.h = fb_height(app.fn.fb_config)]
    /\ bridge_untouched

NextFb == DecodeFb

SpecFb == InitFb /\ [][NextFb]_vars

\* the exponent subfields of the word c = hi * 2^30 + lo: c mod 8 and
\* (c div 8) mod 8, both decided by lo since 2^30 is a multiple of 64
ExpW(c) == c.lo % 8
ExpH(c) == (c.lo \div 8) % 8

\* C15: for every FB_CONFIG word c, query_framebuffer_size returns
\* (2^(e_w+1), 2^(e_h+1)) with e_w = c mod 8 and e_h = (c div 8) mod 8, whatever
\* the bits above bit 5 are; e_w = 3 and e_h = 4 give (16, 32).
C15_FbSizeDecode ==
    app.fn.done =>
        /\ app.fn.w = 2^(ExpW(app.fn.fb_config) + 1)
        /\ app.fn.h = 2^(ExpH(app.fn.fb_config) + 1)
        /\ (ExpW(app.fn.fb_config) = 3 /\ ExpH(app.fn.fb_config) = 4) =>
              (app.fn.w = 16 /\ app.fn.h = 32)

C15_Witness ==
    /\ app.fn.done
    /\ app.fn.fb_config = [hi |-> 3, lo |-> FIELD30 - 64 + 35]
    /\ app.fn.w = 16
    /\ app.fn.h = 32

(***************************************************************************)
(* The sim front end (src/src/bin/sim.rs): main.                           *)
(***************************************************************************)
MaxTries == 2      \* the tries MAX_TRIES (0xffffffff) is scaled to

MAX_TRIES == MaxTries

\* vec![0; n]
ZeroBuf(n) == [i \in 1..n |-> [v |-> 0, rd |-> 0, pos |-> 0]]

\* a loop that takes an error of the query for a halt
sim_polled_err_halts(r, stopped) ==
    IF r.res = "Ok"
    THEN IF r.ret # "true"
         THEN [break |-> FALSE, stopped |-> stopped]
         ELSE [break |-> TRUE, stopped |-> TRUE]
    ELSE [break |-> TRUE, stopped |-> TRUE]

\* a loop that leaves on Ok(true) without recording the halt
sim_polled_break_only(r, stopped) ==
    IF r.res = "Ok"
    THEN IF r.ret # "true"
         THEN [break |-> FALSE, stopped |-> stopped]
         ELSE [break |-> TRUE, stopped |-> stopped]
    ELSE [break |-> TRUE, stopped |-> stopped]

\* the polling loop after one query_is_halted: whether the loop goes on and
\* what `stopped` becomes; r is the result of the query
sim_polled(r, stopped) ==
    IF r.res = "Ok"
    THEN IF r.ret # "true"
         THEN [break |-> FALSE, stopped |-> stopped]
         ELSE [break |-> TRUE, stopped |-> TRUE]
    ELSE [break |-> TRUE, stopped |-> stopped]

\* a teardown that is skipped when main is left by a panic
drop_bridge_unless_panic(exit, destroys) ==
    IF exit = "panic" THEN destroys ELSE destroys + 1

\* impl Drop for ProtoBridge, run when main is left and its Device goes out of
\* scope (by return, by `?`, or unwinding from a panic): one more call of
\* DestroyProtoBridge(self.handle)
drop_bridge(exit, destroys) == destroys + 1

\* where main is once it is left by `exit`, or still `at` when it is not left
sim_leave(at) == at \in {"exit_ok", "exit_err", "panic"}

\* the line main prints after the loop
sim_report(stopped) ==
    IF stopped THEN "Execution stopped due to device halt"
    ELSE "Execution stopped due to timeout"

\* the Device call that has just returned to main
LastDCall == app.dlog[Len(app.dlog)]

\* main between two Device calls
SimAt(at) == app.sim.at = at /\ pc = "idle" /\ app.op = "none"

InitSim ==
    /\ clocks = 0
    /\ input_queue = <<>>
    /\ output_queue = <<>>
    /\ \E r \in DevResets :
          dev = [DevInit EXCEPT !.regs[REG_IDX_FB_CONFIG] = r.fb_config,
                                !.regs[REG_IDX_FB_ADDR] = r.fb_addr]
    /\ pc = "idle"
    /\ cur = NoCall
    /\ log = <<>>
    /\ issued = 0
    /\ written = <<>>
    /\ fed = <<>>
    /\ produced = <<>>
    /\ returned = <<>>
    /\ stalls = 0
    /\ enc = EncIdle
    /\ handle = "HANDLE"
    /\ \E image \in Images :
          app = [AppIdle EXCEPT !.sim = [at |-> "start", image |-> image, tries |-> 0,
                                         stopped |-> FALSE, msg |-> "none"]]

\* device.load_elf(&opts.elf_path)?
SimLoadElf ==
    /\ SimAt("start")
    /\ LET r == load_elf(input_queue, app.sim.image) IN
       /\ bridge_queued(r.iq)
       /\ app' = [app EXCEPT
             !.sim.at = IF r.res = "Ok" THEN "loaded" ELSE "exit_err",
             !.destroys = IF r.res = "Ok" THEN @ ELSE drop_bridge("exit_err", @),
             !.dlog = Append(@, [DEntry("load_elf", app.sim.image, r.res, "none",
                                        0, 0, <<>>)
                                    EXCEPT !.l0 = Len(log), !.c0 = clocks])]

\* device.enable()
SimEnable ==
    /\ SimAt("loaded")
    /\ bridge_queued(enable(input_queue))
    /\ app' = [app EXCEPT
          !.sim.at = "poll",
          !.dlog = Append(@, [DEntry("enable", NoImage, "Unit", "none", 0, 0, <<>>)
                                 EXCEPT !.l0 = Len(log), !.c0 = clocks])]

\* one more iteration of `for _ in 0..MAX_TRIES`: device.query_is_halted()
SimPoll ==
    /\ SimAt("poll")
    /\ app.sim.tries < MAX_TRIES
    /\ bridge_read_reg(REG_IDX_DEV_EN, WAIT_INFINITE_CYCLES)
    /\ app' = [DEntered("query_is_halted", "reg", <<>>)
                  EXCEPT !.sim.at = "polled", !.sim.tries = @ + 1]

\* the match on what query_is_halted returned
SimPolled ==
    /\ SimAt("polled")
    /\ LET r == sim_polled(LastDCall, app.sim.stopped) IN
       app' = [app EXCEPT !.sim.stopped = r.stopped,
                          !.sim.at = IF r.break THEN "report" ELSE "poll"]
    /\ bridge_untouched

\* the loop runs out of tries
SimTriesOver ==
    /\ SimAt("poll")
    /\ app.sim.tries >= MAX_TRIES
    /\ app' = [app EXCEPT !.sim.at = "report"]
    /\ bridge_untouched

\* the report of why execution stopped
SimReport ==
    /\ SimAt("report")
    /\ app' = [app EXCEPT !.sim.msg = sim_report(app.sim.stopped), !.sim.at = "size"]
    /\ bridge_untouched

\* device.query_framebuffer_size()?
SimQuerySize ==
    /\ SimAt("size")
    /\ bridge_read_reg(REG_IDX_FB_CONFIG, WAIT_INFINITE_CYCLES)
    /\ app' = [DEntered("query_framebuffer_size", "reg", <<>>)
                  EXCEPT !.sim.at = "sized"]

\* fb_data = vec![0; width * height * 4]; device.dump_framebuffer(&mut fb_data)
SimDump ==
    /\ SimAt("sized")
    /\ IF LastDCall.res = "Ok"
       THEN /\ bridge_read_reg(REG_IDX_FB_CONFIG, WAIT_INFINITE_CYCLES)
            /\ app' = [DEntered("dump_framebuffer", "size",
                                ZeroBuf(LastDCall.w * LastDCall.h * 4))
                          EXCEPT !.sim.at = "dumped"]
       ELSE /\ app' = [app EXCEPT !.sim.at = "exit_err",
                                   !.destroys = drop_bridge("exit_err", @)]
            /\ bridge_untouched

\* .expect("Failed to dump device framebuffer!"), then the image is saved
SimSave ==
    /\ SimAt("dumped")
    /\ LET exit == IF LastDCall.res = "Ok" THEN "exit_ok" ELSE "panic" IN
       app' = [app EXCEPT !.sim.at = exit, !.destroys = drop_bridge(exit, @)]
    /\ bridge_untouched

\* the program on the device comes to its end: the enable register reads 0
\* from here on
DevHalts ==
    /\ pc = "wait"
    /\ dev.regs[REG_IDX_DEV_EN] # 0
    /\ dev' = [dev EXCEPT !.regs[REG_IDX_DEV_EN] = 0]
    /\ UNCHANGED <<clocks, input_queue, output_queue, pc, cur, log, issued, written,
                   fed, produced, returned, stalls, enc, handle, app>>

NextSim ==
    \/ SimLoadElf
    \/ SimEnable
    \/ SimPoll
    \/ SimPolled
    \/ SimTriesOver
    \/ SimReport
    \/ SimQuerySize
    \/ SimDump
    \/ SimSave
    \/ QueryIsHaltedReturn
    \/ QueryFramebufferSizeReturn
    \/ DumpAfterSize
    \/ DumpAfterAddr
    \/ DumpReturn
    \/ WaitClock
    \/ ReadBytesReturn
    \/ ReadRegReturn
    \/ DevHalts

SpecSim == InitSim /\ [][NextSim]_vars

IsHaltQuery(e) == e.op = "query_is_halted"

\* C16: a query_is_halted whose read of the enable register timed out returns
\* that error, never Ok(true) or Ok(false); and the sim front end prints
\* "Execution stopped due to device halt" only when some query_is_halted
\* returned Ok(true), and prints the timeout line in every other case.
C16_HaltVsTimeout ==
    /\ \A i \in 1..Len(app.dlog) :
          LET e == app.dlog[i] IN
          (IsHaltQuery(e) /\ log[e.l1].res = "Timeout") =>
              (e.res = "Timeout" /\ e.ret = "none")
    /\ app.sim.msg = "Execution stopped due to device halt" =>
          \E i \in 1..Len(app.dlog) :
              /\ IsHaltQuery(app.dlog[i])
              /\ app.dlog[i].res = "Ok"
              /\ app.dlog[i].ret = "true"
    /\ (/\ app.sim.msg # "none"
        /\ \A i \in 1..Len(app.dlog) :
              ~(/\ IsHaltQuery(app.dlog[i])
                /\ app.dlog[i].res = "Ok"
                /\ app.dlog[i].ret = "true"))
          => app.sim.msg = "Execution stopped due to timeout"

C16_Witness ==
    /\ app.sim.msg = "Execution stopped due to timeout"
    /\ \E i \in 1..Len(app.dlog) :
          /\ IsHaltQuery(app.dlog[i])
          /\ app.dlog[i].res = "Timeout"
          /\ log[app.dlog[i].l1].res = "Timeout"

(***************************************************************************)
(* The bridge used through its byte-stream interface (impl io::Write,      *)
(* impl io::Read) next to its write calls, and the Device calls that only  *)
(* queue a register write on it.                                           *)
(***************************************************************************)
\* the buffers a client hands to write(): empty, or a whole command word (a
\* Read of 2 bytes at address 0)
RawWrites == { <<>>, to_le_bytes(build_cmd(CMD_ID_READ, U32Of(0), U32Of(2))) }

\* the buffer lengths a client hands to read_exact()
RawReads == {1, 3}

IoCanCall == pc = "idle" /\ Len(log) + Len(app.dlog) < MaxOps

\* io::Write::write(buf)
Write(buf) ==
    /\ IoCanCall
    /\ input_queue' = io_write(input_queue, buf)
    /\ written' = written \o buf
    /\ log' = Append(log, Entry(Call("write", U32Of(0), 0, U32Of(0), Len(buf), 0, 0,
                                     buf),
                                "Ok", <<>>, U32Of(0), output_queue))
    /\ UNCHANGED <<clocks, output_queue, dev, pc, cur, issued, fed, produced,
                   returned, stalls, enc, handle, app>>

\* io::Read::read_exact(buf) with a buf of n bytes, called by the client: the
\* bytes present are drained into buf, and fewer than n of them is the error
\* UnexpectedEof
ReadExact(n) ==
    /\ IoCanCall
    /\ LET r == read_exact(output_queue, n) IN
       /\ output_queue' = r.rest
       /\ returned' = returned \o r.bytes
       /\ log' = Append(log, Entry(Call("read_exact", U32Of(0), 0, U32Of(0), n, 0, 0,
                                        FreshBuf(n)),
                                   IF r.ok THEN "Ok" ELSE "UnexpectedEof",
                                   r.bytes \o SubSeq(FreshBuf(n), Len(r.bytes) + 1, n),
                                   U32Of(0), r.rest))
    /\ UNCHANGED <<clocks, input_queue, dev, pc, cur, issued, written, fed, produced,
                   stalls, enc, handle, app>>

NextIo ==
    \/ \E buf \in RawWrites : Write(buf)
    \/ \E n \in RawReads : ReadExact(n)
    \/ \E w \in MemWrites : IoCanCall /\ WriteBytes(w)
    \/ \E r \in RegWrites : IoCanCall /\ WriteReg(r)
    \/ IoCanCall /\ Enable
    \/ IoCanCall /\ Disable
    \/ \E w \in Waits : IoCanCall /\ WaitForOutputCall(w)
    \/ WaitClock
    \/ WaitForOutputReturn

SpecIo == Init /\ [][NextIo]_vars

\* a step in which a write-side call is made
WriteSideCall ==
    \/ /\ Len(log') = Len(log) + 1
       /\ log'[Len(log')].op \in {"write", "write_bytes", "write_reg"}
    \/ /\ Len(app'.dlog) = Len(app.dlog) + 1
       /\ app'.dlog[Len(app'.dlog)].op \in {"enable", "disable"}

\* C17: write, write_bytes, write_reg, enable and disable each append bytes to
\* the pending-input queue (what was queued stays, in place, ahead of them) and
\* leave the clock counter, the pending-output queue and the channel as they
\* were.
C17_WriteSideOnlyQueues ==
    [][WriteSideCall =>
          /\ IsPrefix(input_queue, input_queue')
          /\ clocks' = clocks
          /\ output_queue' = output_queue
          /\ dev' = dev]_vars

C17_Witness ==
    /\ Len(log) = 3
    /\ log[1].op = "write"
    /\ log[2].op = "wait_for_output"
    /\ log[3].op = "write_bytes"
    /\ log[3].c1 = clocks
    /\ clocks > 0
    /\ output_queue # <<>>
    /\ Len(input_queue) = 8 + log[3].n

\* C18: load_elf drives no cycle (clock counter, pending-output queue and
\* channel stay as they were), and when it fails (unreadable file, unparsable
\* image, not an ELF) the pending-input queue is as before as well.
C18_LoadElfOnlyQueues ==
    [][(/\ Len(app'.dlog) = Len(app.dlog) + 1
        /\ app'.dlog[Len(app'.dlog)].op = "load_elf")
          => (/\ clocks' = clocks
              /\ output_queue' = output_queue
              /\ dev' = dev
              /\ IsPrefix(input_queue, input_queue')
              /\ app'.dlog[Len(app'.dlog)].res # "Ok"
                    => input_queue' = input_queue)]_vars

C18_Witness ==
    /\ Len(app.dlog) = 2
    /\ app.dlog[1].op = "query_is_halted"
    /\ app.dlog[1].res = "Ok"
    /\ app.dlog[2].op = "load_elf"
    /\ app.dlog[2].res = "Malformed"
    /\ app.dlog[2].c1 = clocks
    /\ clocks > 0
    /\ output_queue = <<>>

\* C19 (as claimed): a read_exact(n) made while the pending-output queue holds
\* fewer than n bytes aborts: it returns no typed error and no value, and the
\* bytes that were in the queue stay there.
C19_ReadExactUnderflow ==
    [][(/\ Len(log') = Len(log) + 1
        /\ log'[Len(log')].op = "read_exact"
        /\ Len(output_queue) < log'[Len(log')].n)
          => (/\ log'[Len(log')].res = "Abort"
              /\ output_queue' = output_queue)]_vars

(***************************************************************************)
(* ProtoBridge::new, from before the call of CreateProtoBridge.            *)
(***************************************************************************)
\* what CreateProtoBridge may do: the status it returns and the handle it
\* stores through p_handle (a failed creation stores none)
CreateOutcomes ==
    { [ret |-> "success", handle |-> "HANDLE"],
      [ret |-> "failure", handle |-> "NULL"],
      [ret |-> "success", handle |-> "NULL"] }

InitNew ==
    /\ clocks = 0
    /\ input_queue = <<>>
    /\ output_queue = <<>>
    /\ dev = DevInit
    /\ pc = "new"
    /\ cur = NoCall
    /\ log = <<>>
    /\ issued = 0
    /\ written = <<>>
    /\ fed = <<>>
    /\ produced = <<>>
    /\ returned = <<>>
    /\ stalls = 0
    /\ enc = EncIdle
    /\ handle = "NULL"
    /\ \E c \in CreateOutcomes :
          app = [AppIdle EXCEPT !.fn = [kind |-> "new", create |-> c]]

\* ProtoBridge::new(): the status CreateProtoBridge returns is dropped and the
\* bridge is built around whatever handle was stored
New ==
    /\ pc = "new"
    /\ handle' = app.fn.create.handle
    /\ clocks' = 0
    /\ input_queue' = <<>>
    /\ output_queue' = <<>>
    /\ pc' = "idle"
    /\ UNCHANGED <<dev, cur, log, issued, written, fed, produced, returned, stalls,
                   enc, app>>

\* clock() on a bridge whose handle is null hands the null handle to
\* QueryProtoBridgeDataStatus: the process may die there, or the call may come
\* back with some status (the WaitClock step)
NullHandleCrash ==
    /\ pc = "wait"
    /\ handle = "NULL"
    /\ wait_continues(Len(output_queue), cur.n, cur.i, cur.max)
    /\ pc' = "crashed"
    /\ UNCHANGED <<clocks, input_queue, output_queue, dev, cur, log, issued, written,
                   fed, produced, returned, stalls, enc, handle, app>>

NextNew == New \/ NullHandleCrash \/ Next

SpecNew == InitNew /\ [][NextNew]_vars

\* C20 (as claimed): when CreateProtoBridge reports failure or stores no
\* handle, no ProtoBridge comes out of the construction, and no status query or
\* clock step is made on the missing handle.
C20_CreationFailureFatal ==
    (app.fn.create.ret = "failure" \/ app.fn.create.handle = "NULL") =>
        /\ pc \in {"new", "failed"}
        /\ cur.op = "none"
        /\ clocks = 0

TwinPatterns ==
    { [full |-> {}, hold |-> {}],
      [full |-> {2}, hold |-> {}],
      [full |-> {}, hold |-> {9, 10}],
      [full |-> {0, 1, 2, 3, 4, 5, 6, 7, 8}, hold |-> {}] }

\* QueryProtoBridgeDataStatus of a channel that stalls by the pattern
TwinStatus(d, pattern) ==
    [is_input_full   |-> IF d.cycles \in pattern.full THEN 1 ELSE 0,
     is_output_empty |-> IF d.out = <<>> \/ d.cycles \in pattern.hold THEN 1 ELSE 0]

BridgeNew(host) ==
    [clocks |-> 0, input_queue |-> <<>>, output_queue |-> <<>>, dev |-> DevInit,
     host |-> host]

\* a clock() whose cycles are driven from a background thread: how many have
\* gone by when it returns depends on the host
clock_of_threaded(b, status) ==
    LET p_in  == clock_p_in(status, b.input_queue)
        p_out == clock_p_out(status)
    IN  [b EXCEPT !.dev = ClockProtoBridge(b.dev, p_in, p_out),
                  !.input_queue = clock_input_queue(p_in, b.input_queue),
                  !.output_queue = clock_output_queue(p_out, DevOutput(b.dev, p_out),
                                                      b.output_queue),
                  !.clocks = clock_clocks(p_in, p_out, b.clocks) + b.host]

\* clock() on the bridge b under the status the channel reports
clock_of(b, status) ==
    LET p_in  == clock_p_in(status, b.input_queue)
        p_out == clock_p_out(status)
    IN  [b EXCEPT !.dev = ClockProtoBridge(b.dev, p_in, p_out),
                  !.input_queue = clock_input_queue(p_in, b.input_queue),
                  !.output_queue = clock_output_queue(p_out, DevOutput(b.dev, p_out),
                                                      b.output_queue),
                  !.clocks = clock_clocks(p_in, p_out, b.clocks)]

\* the loop of wait_for_output, i iterations done
RECURSIVE wait_loop(_, _, _, _, _)
wait_loop(b, num_bytes, i, max_wait_cycles, pattern) ==
    IF wait_continues(Len(b.output_queue), num_bytes, i, max_wait_cycles)
    THEN wait_loop(clock_of(b, TwinStatus(b.dev, pattern)), num_bytes, i + 1,
                   max_wait_cycles, pattern)
    ELSE b

\* wait_for_output after its loop, which left the bridge b: what it returns
\* (Ok(output_queue.len()) or the Timeout error)
wait_returns(b, num_bytes) ==
    [b |-> b,
     ret |-> [res |-> wait_result(Len(b.output_queue), num_bytes),
              val |-> IF wait_result(Len(b.output_queue), num_bytes) = "Ok"
                      THEN <<Len(b.output_queue)>> ELSE <<>>]]

\* wait_for_output(num_bytes, max_wait_cycles)
wait_for_output_of(b, num_bytes, max_wait_cycles, pattern) ==
    wait_returns(wait_loop(b, num_bytes, 0, max_wait_cycles, pattern), num_bytes)

\* read_bytes after its wait returned w, with a buf of n bytes
read_bytes_returns(w, n) ==
    IF w.ret.res = "Ok"
    THEN [b |-> [w.b EXCEPT !.output_queue = read_exact(@, n).rest],
          ret |-> [res |-> "Ok", val |-> read_exact(w.b.output_queue, n).bytes]]
    ELSE [b |-> w.b, ret |-> [res |-> "Timeout", val |-> <<>>]]

\* read_bytes(addr, buf, max_wait_cycles) with a buf of n bytes
read_bytes_of(b, addr, n, max_wait_cycles, pattern) ==
    read_bytes_returns(
        wait_for_output_of([b EXCEPT !.input_queue = cmd_read_bytes(@, addr, U32Of(n))],
                           n, max_wait_cycles, pattern),
        n)

\* read_reg after its wait returned w
read_reg_returns(w) ==
    IF w.ret.res = "Ok"
    THEN [b |-> [w.b EXCEPT !.output_queue = read_exact(@, 4).rest],
          ret |-> [res |-> "Ok",
                   val |-> <<u32_from_le_bytes(
                                 Vals(read_exact(w.b.output_queue, 4).bytes))>>]]
    ELSE [b |-> w.b, ret |-> [res |-> "Timeout", val |-> <<>>]]

\* read_reg(idx, max_wait_cycles)
read_reg_of(b, idx, max_wait_cycles, pattern) ==
    read_reg_returns(
        wait_for_output_of([b EXCEPT !.input_queue = cmd_read_reg(@, idx)],
                           4, max_wait_cycles, pattern))

\* write_bytes(addr, buf) and write_reg(idx, data)
write_bytes_of(b, addr, buf) ==
    [b |-> [b EXCEPT !.input_queue = write_bytes(@, addr, buf)],
     ret |-> [res |-> "Unit", val |-> <<>>]]

write_reg_of(b, idx, data) ==
    [b |-> [b EXCEPT !.input_queue = cmd_write_reg(@, idx, data)],
     ret |-> [res |-> "Unit", val |-> <<>>]]

\* the calls made in a comparison, with their arguments
TwinCalls ==
    [op : {"write_bytes"}, a : MemWrites] \cup [op : {"write_reg"}, a : RegWrites]
    \cup [op : {"read_bytes"}, a : MemReads] \cup [op : {"read_reg"}, a : RegReads]
    \cup [op : {"wait_for_output"}, a : Waits]

\* the call c made on the bridge b
call_of(b, c, pattern) ==
    CASE c.op = "write_bytes" -> write_bytes_of(b, c.a.addr, c.a.buf)
      [] c.op = "write_reg" -> write_reg_of(b, c.a.idx, c.a.data)
      [] c.op = "read_bytes" -> read_bytes_of(b, c.a.addr, c.a.n, c.a.max, pattern)
      [] c.op = "read_reg" -> read_reg_of(b, c.a.idx, c.a.max, pattern)
      [] c.op = "wait_for_output" -> wait_for_output_of(b, c.a.n, c.a.max, pattern)

InitTwin ==
    /\ clocks = 0
    /\ input_queue = <<>>
    /\ output_queue = <<>>
    /\ dev = DevInit
    /\ pc = "fn"
    /\ cur = NoCall
    /\ log = <<>>
    /\ issued = 0
    /\ written = <<>>
    /\ fed = <<>>
    /\ produced = <<>>
    /\ returned = <<>>
    /\ stalls = 0
    /\ enc = EncIdle
    /\ handle = "HANDLE"
    /\ \E pattern \in TwinPatterns :
          app = [AppIdle EXCEPT !.fn = [kind |-> "twin", pattern |-> pattern,
                                        calls |-> <<>>,
                                        a |-> BridgeNew(0), b |-> BridgeNew(1),
                                        ra |-> <<>>, rb |-> <<>>]]

\* one more call, made on both bridges
TwinCall(c) ==
    /\ pc = "fn"
    /\ Len(app.fn.calls) < MaxOps
    /\ LET xa == call_of(app.fn.a, c, app.fn.pattern)
           xb == call_of(app.fn.b, c, app.fn.pattern)
       IN  app' = [app EXCEPT !.fn.calls = Append(@, c),
                              !.fn.a = xa.b, !.fn.b = xb.b,
                              !.fn.ra = Append(@, xa.ret),
                              !.fn.rb = Append(@, xb.ret)]
    /\ bridge_untouched

NextTwin == \E c \in TwinCalls : TwinCall(c)

SpecTwin == InitTwin /\ [][NextTwin]_vars

MaxViewOps == 3    \* calls the event loop makes on the Simulation
MaxPolls == 3      \* the polls of one update() by which the program has halted

\* Device::new: a bridge on a channel in its reset state
device_new(r) ==
    [bridge |-> [BridgeNew(0) EXCEPT !.dev.regs[REG_IDX_FB_CONFIG] = r.fb_config,
                                     !.dev.regs[REG_IDX_FB_ADDR] = r.fb_addr],
     enabled |-> FALSE]

device_load_elf(d, image) ==
    LET r == load_elf(d.bridge.input_queue, image) IN
    [d |-> [d EXCEPT !.bridge.input_queue = r.iq], res |-> r.res]

device_enable(d) ==
    [d EXCEPT !.bridge.input_queue = enable(@), !.enabled = TRUE]

\* query_is_halted after its read_reg returned r
device_is_halted_returns(d, r) ==
    [d |-> [d EXCEPT !.bridge = r.b],
     res |-> r.ret.res,
     ret |-> query_is_halted(r.ret.res,
                             IF r.ret.res = "Ok" THEN r.ret.val[1] ELSE U32Of(0)).ret]

device_query_is_halted(d, pattern) ==
    device_is_halted_returns(
        d, read_reg_of(d.bridge, REG_IDX_DEV_EN, WAIT_INFINITE_CYCLES, pattern))

\* query_framebuffer_size after its read_reg returned r
device_framebuffer_size_returns(d, r) ==
    [d |-> [d EXCEPT !.bridge = r.b],
     res |-> r.ret.res,
     w |-> IF r.ret.res = "Ok" THEN fb_width(r.ret.val[1]) ELSE 0,
     h |-> IF r.ret.res = "Ok" THEN fb_height(r.ret.val[1]) ELSE 0]

device_query_framebuffer_size(d, pattern) ==
    device_framebuffer_size_returns(
        d, read_reg_of(d.bridge, REG_IDX_FB_CONFIG, WAIT_INFINITE_CYCLES, pattern))

\* the program on the device comes to its end: the enable register reads 0
device_halts(d) == [d EXCEPT !.bridge.dev.regs[REG_IDX_DEV_EN] = 0]

\* a reset that loads into the Device at hand when there is one
reset_device_in_place(device, r) ==
    IF device = <<>> THEN device_new(r) ELSE device[1]

\* reset(): the Device the image is loaded into
reset_device(device, r) == device_new(r)

\* reset(): the Device held afterwards and the result
reset(device, elf_path, r) ==
    IF elf_path # <<>>
    THEN LET target == reset_device(device, r)
             l == device_load_elf(target, elf_path[1])
         IN  [device |-> IF l.res = "Ok" THEN <<l.d>> ELSE device, res |-> l.res,
              loaded |-> <<target>>]
    ELSE [device |-> device, res |-> "Ok", loaded |-> <<>>]

ViewCall(op, res, loaded) == [op |-> op, res |-> res, loaded |-> loaded]

InitView ==
    /\ clocks = 0
    /\ input_queue = <<>>
    /\ output_queue = <<>>
    /\ dev = DevInit
    /\ pc = "fn"
    /\ cur = NoCall
    /\ log = <<>>
    /\ issued = 0
    /\ written = <<>>
    /\ fed = <<>>
    /\ produced = <<>>
    /\ returned = <<>>
    /\ stalls = 0
    /\ enc = EncIdle
    /\ handle = "HANDLE"
    /\ \E pattern \in TwinPatterns, r \in DevResets :
          app = [AppIdle EXCEPT !.fn = [kind |-> "view", at |-> "start",
                                        pattern |-> pattern, resets |-> r,
                                        device |-> <<>>, elf_path |-> <<>>,
                                        state |-> "Running",
                                        fb_width |-> 0, fb_height |-> 0,
                                        polls |-> 0, fb_addr |-> U32Of(0),
                                        calls |-> <<>>]]

ViewAt(at) == pc = "fn" /\ app.fn.at = at

ViewCanCall == ViewAt("loop") /\ Len(app.fn.calls) < MaxViewOps

\* what expect() leaves of the Simulation: on Err the panic drops it
ViewExpect(fn, call) ==
    IF call.res = "Ok"
    THEN [fn EXCEPT !.calls = Append(@, call)]
    ELSE [fn EXCEPT !.calls = Append(@, call), !.at = "panic", !.device = <<>>]

\* Simulation::new().expect(..) once its query_framebuffer_size returned s
ViewCreated(fn, s) ==
    IF s.res = "Ok"
    THEN [fn EXCEPT !.at = "loop", !.fb_width = s.w, !.fb_height = s.h]
    ELSE [fn EXCEPT !.at = "panic"]

\* Simulation::new().expect(..): a Device of its own to ask for the
\* framebuffer size, dropped on return
ViewNew ==
    /\ ViewAt("start")
    /\ app' = [app EXCEPT !.fn =
          ViewCreated(@, device_query_framebuffer_size(device_new(app.fn.resets),
                                                       app.fn.pattern))]
    /\ bridge_untouched

\* sim.load_elf(path).expect(..)
ViewLoadElf(image) ==
    /\ ViewCanCall
    /\ LET r == reset(app.fn.device, <<image>>, app.fn.resets) IN
       app' = [app EXCEPT !.fn = ViewExpect([@ EXCEPT !.elf_path = <<image>>,
                                                      !.device = r.device],
                                            ViewCall("load_elf", r.res, r.loaded))]
    /\ bridge_untouched

\* sim.reset().expect(..)
ViewReset ==
    /\ ViewCanCall
    /\ LET r == reset(app.fn.device, app.fn.elf_path, app.fn.resets) IN
       app' = [app EXCEPT !.fn = ViewExpect([@ EXCEPT !.device = r.device],
                                            ViewCall("reset", r.res, r.loaded))]
    /\ bridge_untouched

\* sim.update(fb_data): with a Device and Running, device.enable() and on to
\* the polling loop; with a Device and Paused, on to the dump; with no Device,
\* nothing
ViewUpdate ==
    /\ ViewCanCall
    /\ app' = [app EXCEPT !.fn =
          IF app.fn.device = <<>>
          THEN [@ EXCEPT !.calls = Append(@, ViewCall("update", "Ok", <<>>))]
          ELSE IF app.fn.state = "Running"
          THEN [@ EXCEPT !.device = <<device_enable(app.fn.device[1])>>,
                         !.at = "poll", !.polls = 0]
          ELSE [@ EXCEPT !.at = "dump"]]
    /\ bridge_untouched

\* update()'s loop once query_is_halted returned q: on, or out to the dump
ViewPolled(fn, q) ==
    [fn EXCEPT !.device = <<q.d>>,
               !.polls = @ + 1,
               !.at = IF q.res = "Ok" /\ q.ret = "false" THEN "poll" ELSE "dump"]

\* one iteration of update()'s loop: device.query_is_halted(), on a device
\* whose program has halted by now (halted) or not
ViewPoll(halted) ==
    /\ ViewAt("poll")
    /\ halted \/ app.fn.polls + 1 < MaxPolls
    /\ app' = [app EXCEPT !.fn =
          ViewPolled(@, device_query_is_halted(
                            IF halted THEN device_halts(app.fn.device[1])
                            ELSE app.fn.device[1],
                            app.fn.pattern))]
    /\ bridge_untouched

\* dump_framebuffer once its query_framebuffer_size returned s: the `?` and
\* the size test against a dst of n bytes
ViewDumpSized(fn, s, n) ==
    IF s.res # "Ok"
    THEN ViewExpect(fn, ViewCall("update", s.res, <<>>))
    ELSE IF ~dump_fits(fb_num_pixels(s.w, s.h), n)
    THEN ViewExpect(fn, ViewCall("update", "BufferTooSmall", <<>>))
    ELSE [fn EXCEPT !.device = <<s.d>>, !.at = "dump_addr"]

\* device.dump_framebuffer(fb_data).expect(..) with fb_data of
\* framebuffer_size() bytes: query_framebuffer_size()? and the size test
ViewDumpSize ==
    /\ ViewAt("dump")
    /\ app' = [app EXCEPT !.fn =
          ViewDumpSized(@, device_query_framebuffer_size(app.fn.device[1],
                                                         app.fn.pattern),
                        fb_num_pixels(app.fn.fb_width, app.fn.fb_height))]
    /\ bridge_untouched

\* dump_framebuffer once read_reg(REG_IDX_FB_ADDR, ..) returned a
ViewDumpAddressed(fn, a) ==
    IF a.ret.res # "Ok"
    THEN ViewExpect(fn, ViewCall("update", a.ret.res, <<>>))
    ELSE [fn EXCEPT !.device[1].bridge = a.b, !.fb_addr = a.ret.val[1],
                    !.at = "dump_read"]

\* dump_framebuffer: read_reg(REG_IDX_FB_ADDR, WAIT_INFINITE_CYCLES)?
ViewDumpAddr ==
    /\ ViewAt("dump_addr")
    /\ app' = [app EXCEPT !.fn =
          ViewDumpAddressed(@, read_reg_of(app.fn.device[1].bridge, REG_IDX_FB_ADDR,
                                           WAIT_INFINITE_CYCLES, app.fn.pattern))]
    /\ bridge_untouched

\* dump_framebuffer once read_bytes returned x, and the expect() of update()
ViewDumped(fn, x) ==
    ViewExpect([fn EXCEPT !.device[1].bridge = x.b, !.at = "loop"],
               ViewCall("update", x.ret.res, <<>>))

\* dump_framebuffer: read_bytes(fb_addr, dst, WAIT_INFINITE_CYCLES)?
ViewDumpRead ==
    /\ ViewAt("dump_read")
    /\ app' = [app EXCEPT !.fn =
          ViewDumped(@, read_bytes_of(app.fn.device[1].bridge, app.fn.fb_addr,
                                      fb_num_pixels(app.fn.fb_width, app.fn.fb_height),
                                      WAIT_INFINITE_CYCLES, app.fn.pattern))]
    /\ bridge_untouched

\* pause(), resume() and toggle()
ViewPause ==
    /\ ViewCanCall
    /\ app' = [app EXCEPT !.fn.state = IF @ = "Running" THEN "Paused" ELSE @,
                          !.fn.calls = Append(@, ViewCall("pause", "Ok", <<>>))]
    /\ bridge_untouched

ViewResume ==
    /\ ViewCanCall
    /\ app' = [app EXCEPT !.fn.state = IF @ = "Paused" THEN "Running" ELSE @,
                          !.fn.calls = Append(@, ViewCall("resume", "Ok", <<>>))]
    /\ bridge_untouched

ViewToggle ==
    /\ ViewCanCall
    /\ app' = [app EXCEPT !.fn.state = IF @ = "Running" THEN "Paused" ELSE "Running",
                          !.fn.calls = Append(@, ViewCall("toggle", "Ok", <<>>))]
    /\ bridge_untouched

NextView ==
    \/ ViewNew
    \/ \E image \in Images : ViewLoadElf(image)
    \/ ViewReset
    \/ ViewUpdate
    \/ \E halted \in BOOLEAN : ViewPoll(halted)
    \/ ViewDumpSize
    \/ ViewDumpAddr
    \/ ViewDumpRead
    \/ ViewPause
    \/ ViewResume
    \/ ViewToggle

SpecView == InitView /\ [][NextView]_vars

\* the Device a call of load_elf or reset loaded the image into, before the load
ViewLoads ==
    { app.fn.calls[i].loaded[1] :
        i \in {j \in 1..Len(app.fn.calls) : app.fn.calls[j].loaded # <<>>} }

ViewLast == app.fn.calls[Len(app.fn.calls)]

\* C23: in the viewer, every load_elf/reset with a path set loads the image
\* into a freshly created Device (clock counter 0, empty queues, never enabled)
\* and the Device held before is discarded: when the call is over the
\* Simulation holds the fresh Device with exactly the image's upload queued,
\* or, when the load failed, the viewer panics and holds none.
C23_ReloadByRecreation ==
    /\ \A d \in ViewLoads :
          /\ d.bridge.clocks = 0
          /\ ~d.enabled
          /\ d.bridge.input_queue = <<>>
          /\ d.bridge.output_queue = <<>>
          /\ d.bridge.dev.cycles = 0
    /\ (app.fn.at \in {"loop", "panic"} /\ app.fn.calls # <<>>
        /\ ViewLast.loaded # <<>>) =>
          IF ViewLast.res = "Ok"
          THEN /\ app.fn.device # <<>>
               /\ app.fn.device[1].bridge.clocks = 0
               /\ ~app.fn.device[1].enabled
               /\ app.fn.device[1].bridge.output_queue = <<>>
               /\ app.fn.device[1].bridge.input_queue =
                     load_segments(<<>>, app.fn.elf_path[1].headers)
          ELSE app.fn.at = "panic" /\ app.fn.device = <<>>

C23_Witness ==
    /\ Len(app.fn.calls) = 3
    /\ app.fn.calls[1].op = "load_elf"
    /\ app.fn.calls[2].op = "update"
    /\ app.fn.calls[2].res = "Ok"
    /\ app.fn.calls[3].op = "reset"
    /\ app.fn.calls[3].res = "Ok"
    /\ app.fn.device[1].bridge.input_queue # <<>>
    /\ app.fn.device[1].bridge.clocks = 0

(***************************************************************************)
(* One bridge driven cycle by cycle, with the status each cycle was driven *)
(* under kept beside the bridge as it was before the cycle.                *)
(***************************************************************************)
CycleCalls ==
    { [op |-> "write_bytes", a |-> [addr |-> U32Of(1), buf |-> <<51>>]],
      [op |-> "read_bytes", a |-> [addr |-> U32Of(0), n |-> 2, max |-> 9]],
      [op |-> "read_bytes", a |-> [addr |-> U32Of(1), n |-> 1, max |-> 40]],
      [op |-> "read_reg", a |-> [idx |-> REG_IDX_FB_ADDR, max |-> 40]],
      [op |-> "wait_for_output", a |-> [n |-> 1, max |-> 9]] }

\* the bytes the call c queues before it waits, and the bytes it waits for
call_queues(iq, c) ==
    CASE c.op = "write_bytes" -> write_bytes(iq, c.a.addr, c.a.buf)
      [] c.op = "read_bytes" -> cmd_read_bytes(iq, c.a.addr, U32Of(c.a.n))
      [] c.op = "read_reg" -> cmd_read_reg(iq, c.a.idx)
      [] c.op = "wait_for_output" -> iq

call_waits(c) ==
    CASE c.op = "write_bytes" -> <<>>
      [] c.op = "read_bytes" -> <<[n |-> c.a.n, max |-> c.a.max, i |-> 0, take |-> c.a.n]>>
      [] c.op = "read_reg" -> <<[n |-> 4, max |-> c.a.max, i |-> 0, take |-> 4]>>
      [] c.op = "wait_for_output" -> <<[n |-> c.a.n, max |-> c.a.max, i |-> 0, take |-> 0]>>

InitCycle ==
    /\ clocks = 0
    /\ input_queue = <<>>
    /\ output_queue = <<>>
    /\ dev = DevInit
    /\ pc = "fn"
    /\ cur = NoCall
    /\ log = <<>>
    /\ issued = 0
    /\ written = <<>>
    /\ fed = <<>>
    /\ produced = <<>>
    /\ returned = <<>>
    /\ stalls = 0
    /\ enc = EncIdle
    /\ handle = "HANDLE"
    /\ app = [AppIdle EXCEPT !.fn = [kind |-> "cycle", b |-> BridgeNew(0),
                                     wait |-> <<>>, last |-> <<>>, calls |-> 0,
                                     stalls |-> 0]]

\* a call is made: its bytes are queued and, if it is one that waits, its wait
\* begins
CycleCall(c) ==
    /\ pc = "fn"
    /\ app.fn.wait = <<>>
    /\ app.fn.calls < MaxOps
    /\ app' = [app EXCEPT !.fn.b.input_queue = call_queues(@, c),
                          !.fn.wait = call_waits(c),
                          !.fn.calls = @ + 1,
                          !.fn.last = <<>>]
    /\ bridge_untouched

\* one iteration of the loop of wait_for_output: clock() under a status the
\* channel reports
CycleClock ==
    /\ pc = "fn"
    /\ app.fn.wait # <<>>
    /\ wait_continues(Len(app.fn.b.output_queue), app.fn.wait[1].n, app.fn.wait[1].i,
                      app.fn.wait[1].max)
    /\ \E status \in QueryProtoBridgeDataStatus(app.fn.b.dev, app.fn.stalls) :
          app' = [app EXCEPT !.fn.b = clock_of(@, status),
                             !.fn.wait[1].i = @ + 1,
                             !.fn.stalls = IF IsStall(app.fn.b.dev, status)
                                           THEN @ + 1 ELSE @,
                             !.fn.last = <<[status |-> status, before |-> app.fn.b]>>]
    /\ bridge_untouched

\* the wait is over: on Ok a read takes its bytes with read_exact
CycleReturn ==
    /\ pc = "fn"
    /\ app.fn.wait # <<>>
    /\ ~wait_continues(Len(app.fn.b.output_queue), app.fn.wait[1].n, app.fn.wait[1].i,
                       app.fn.wait[1].max)
    /\ app' = [app EXCEPT
                  !.fn.b.output_queue =
                      IF wait_result(Len(@), app.fn.wait[1].n) = "Ok"
                      THEN read_exact(@, app.fn.wait[1].take).rest ELSE @,
                  !.fn.wait = <<>>,
                  !.fn.last = <<>>]
    /\ bridge_untouched

NextCycle ==
    \/ \E c \in CycleCalls : CycleCall(c)
    \/ CycleClock
    \/ CycleReturn

SpecCycle == InitCycle /\ [][NextCycle]_vars

\* the byte a cycle offered to the channel: the one the channel's decoder took
CycleOffered(before, after) ==
    IF after.dev.hdr # before.dev.hdr \/ after.dev.left # before.dev.left
       \/ after.dev.nreads # before.dev.nreads \/ after.dev.regs # before.dev.regs
       \/ after.dev.waddr # before.dev.waddr
    THEN 1 ELSE 0

\* C24: in each driven cycle a byte is offered to the channel only if the
\* status read for the cycle reported input not full and input_queue was
\* non-empty, and then exactly the front byte leaves the queue; a byte is
\* captured only if the status reported output not empty, and then exactly one
\* byte (the channel's output) is appended; otherwise the queues are as before.
C24_FlowControl ==
    app.fn.last # <<>> =>
        LET s == app.fn.last[1].status
            p == app.fn.last[1].before
            b == app.fn.b
        IN  /\ IF s.is_input_full = 0 /\ p.input_queue # <<>>
               THEN /\ b.input_queue = Tail(p.input_queue)
                    /\ b.dev = ClockProtoBridge(p.dev, <<Head(p.input_queue)>>,
                                                s.is_output_empty = 0)
               ELSE /\ b.input_queue = p.input_queue
                    /\ CycleOffered(p, b) = 0
            /\ IF s.is_output_empty = 0
               THEN /\ Len(b.output_queue) = Len(p.output_queue) + 1
                    /\ SubSeq(b.output_queue, 1, Len(p.output_queue)) = p.output_queue
                    /\ b.output_queue[Len(b.output_queue)] = Head(p.dev.out)
               ELSE b.output_queue = p.output_queue
            /\ Len(p.input_queue) - Len(b.input_queue) \in {0, 1}
            /\ Len(b.output_queue) - Len(p.output_queue) \in {0, 1}
            /\ b.clocks = p.clocks + 1

\* a cycle under "input full" with bytes queued, in which a byte was captured
C24_Witness ==
    /\ app.fn.last # <<>>
    /\ app.fn.last[1].status.is_input_full = 1
    /\ app.fn.last[1].status.is_output_empty = 0
    /\ app.fn.last[1].before.input_queue # <<>>
    /\ Len(app.fn.b.output_queue) = Len(app.fn.last[1].before.output_queue) + 1

(***************************************************************************)
(* The bytes write_bytes and read_reg put on the wire: the arguments and   *)
(* the bytes already queued are drawn in the initial state and each call   *)
(* is made once.                                                           *)
(***************************************************************************)
WireAddrs == { U32Of(0), U32Of(1), U32Of(2), U32Of(REG_SENTINEL - 1),
               [hi |-> 1, lo |-> 1], U32_ALL_ONES }
WireBufs == { <<>>, <<51>>, <<17, 34>>, <<0, 255, 0>> }
WireQueued == { <<>>, <<7>>, to_le_bytes(build_cmd(CMD_ID_READ, U32Of(0), U32Of(2))) }
WireIdxs == { REG_IDX_DEV_EN, REG_IDX_FB_ADDR, REG_IDX_FB_CONFIG, 1023 }

InitWire ==
    /\ clocks = 0
    /\ input_queue = <<>>
    /\ output_queue = <<>>
    /\ dev = DevInit
    /\ pc = "fn"
    /\ cur = NoCall
    /\ log = <<>>
    /\ issued = 0
    /\ written = <<>>
    /\ fed = <<>>
    /\ produced = <<>>
    /\ returned = <<>>
    /\ stalls = 0
    /\ enc = EncIdle
    /\ handle = "HANDLE"
    /\ \E addr \in WireAddrs, buf \in WireBufs, iq \in WireQueued, idx \in WireIdxs :
          app = [AppIdle EXCEPT !.fn = [kind |-> "wire", addr |-> addr, buf |-> buf,
                                        idx |-> idx, iq0 |-> iq, iq |-> iq,
                                        op |-> "none"]]

\* write_bytes(addr, buf)
WireWriteBytes ==
    /\ pc = "fn"
    /\ app.fn.op = "none"
    /\ app' = [app EXCEPT !.fn.iq = write_bytes(@, app.fn.addr, app.fn.buf),
                          !.fn.op = "write_bytes"]
    /\ bridge_untouched

\* the command of read_reg(idx, _)
WireReadReg ==
    /\ pc = "fn"
    /\ app.fn.op = "none"
    /\ app' = [app EXCEPT !.fn.iq = cmd_read_reg(@, app.fn.idx),
                          !.fn.op = "read_reg"]
    /\ bridge_untouched

NextWire == WireWriteBytes \/ WireReadReg

SpecWire == InitWire /\ [][NextWire]_vars

\* the command word in the eight bytes that were appended first, by its
\* subfields (id: bits 60..63, addr: bits 30..59, size: bits 0..29)
WireWord == DevDecode(SubSeq(app.fn.iq, Len(app.fn.iq0) + 1, Len(app.fn.iq0) + 8))

\* C25: write_bytes(addr, buf) appends exactly the 8-byte little-endian
\* serialization of a Write command word whose address subfield is addr and
\* whose size subfield is buf.len(), then the bytes of buf in order; the queue
\* grows by exactly 8 + buf.len() bytes.
C25_WriteWireFormat ==
    app.fn.op = "write_bytes" =>
        /\ Len(app.fn.iq) = Len(app.fn.iq0) + 8 + Len(app.fn.buf)
        /\ SubSeq(app.fn.iq, 1, Len(app.fn.iq0)) = app.fn.iq0
        /\ WireWord.id = CMD_ID_WRITE
        /\ U32Of(WireWord.addr) = app.fn.addr
        /\ WireWord.size = Len(app.fn.buf)
        /\ SubSeq(app.fn.iq, Len(app.fn.iq0) + 9, Len(app.fn.iq)) = app.fn.buf

\* C26: the command word read_reg sends has its data subfield zeroed, whatever
\* the register index.
C26_ReadRegDataZero ==
    app.fn.op = "read_reg" =>
        /\ WireWord.id = CMD_ID_READ
        /\ WireWord.size = 0

(***************************************************************************)
(* Properties of waits, reads and the bytes in flight.                     *)
(***************************************************************************)
\* a step in which the wait of the call in progress ends and the call returns
WaitReturns == pc = "wait" /\ pc' = "idle"

\* C27: wait_for_output drives no cycle while the queue holds at least n bytes
\* (none at all when it does so at the call, n = 0 and a budget of 0
\* included), so it stops at the first cycle after which the queue holds n
\* bytes; it returns Ok exactly when the queue holds at least n bytes, and then
\* the current length of the queue, which may exceed n.
C27_SuccessfulWait ==
    /\ [][(pc = "wait" /\ Len(output_queue) >= cur.n) =>
             (clocks' = clocks /\ dev' = dev /\ fed' = fed /\ produced' = produced)]_vars
    /\ [][(WaitReturns /\ cur.op = "wait_for_output") =>
             /\ LastCall'.res = (IF Len(output_queue) >= cur.n THEN "Ok" ELSE "Timeout")
             /\ LastCall'.qlen = Len(output_queue)
             /\ LastCall'.driven = clocks - cur.c0
             /\ output_queue' = output_queue]_vars
    /\ [](\A i \in 1..Len(log) :
             (log[i].op = "wait_for_output" /\ log[i].res = "Ok") =>
                 log[i].qlen >= log[i].n)

C27_Witness ==
    /\ Len(log) = 3
    /\ log[2].op = "wait_for_output"
    /\ log[2].res = "Ok"
    /\ log[2].driven > 0
    /\ log[2].qlen = log[2].n
    /\ log[3].op = "wait_for_output"
    /\ log[3].res = "Ok"
    /\ log[3].driven = 0
    /\ log[3].qlen > log[3].n

\* C28: a read_bytes that returns Ok takes exactly the first buf.len() bytes of
\* output_queue into buf, in order, and leaves the bytes behind them queued; a
\* read_reg that returns Ok takes exactly the first 4 bytes and returns the
\* 32-bit value they spell least significant byte first.
C28_ReadConsumption ==
    [][(WaitReturns /\ IsRead(cur) /\ LastCall'.res = "Ok") =>
          /\ Len(output_queue) >= cur.n
          /\ LastCall'.out = SubSeq(output_queue, 1, cur.n)
          /\ output_queue' = SubSeq(output_queue, cur.n + 1, Len(output_queue))
          /\ cur.op = "read_bytes" => Len(LastCall'.out) = Len(cur.buf)
          /\ cur.op = "read_reg" =>
                /\ cur.n = 4
                /\ LastCall'.val.lo = output_queue[1].v + 256 * output_queue[2].v
                                      + 65536 * output_queue[3].v
                                      + 16777216 * (output_queue[4].v % 64)
                /\ LastCall'.val.hi = output_queue[4].v \div 64]_vars

C28_Witness ==
    /\ Len(log) = 3
    /\ log[3].op = "read_bytes"
    /\ log[3].res = "Ok"
    /\ log[3].n = 1
    /\ log[3].driven = 0
    /\ Len(output_queue) = 3
    /\ log[3].out[1].rd = 1
    /\ output_queue[1].rd = 1

\* the bytes load_elf queues for the image sim was started on
SimUpload == load_segments(<<>>, app.sim.image.headers)

\* whether every PT_LOAD segment of the image is in the device's memory
SimImageDelivered ==
    \A k \in 1..Len(app.sim.image.headers) :
        LET header == app.sim.image.headers[k] IN
        header.p_type = "PT_LOAD" =>
            \A j \in 1..Len(header.data) :
                DevMemAt(dev, header.p_paddr.lo + j - 1) = header.data[j]

\* C29: after load_elf and enable(), the bytes fed to the channel begin with
\* the image's upload, so no byte of the enable Write is fed before every
\* command and payload byte of every segment; when the device sees its enable
\* register set, the whole upload and the Write have been fed and the image is
\* in its memory.
C29_ImageBeforeEnable ==
    /\ \A i \in 1..Min(Len(fed), Len(SimUpload)) : fed[i] = SimUpload[i]
    /\ dev.regs[REG_IDX_DEV_EN] # 0 =>
          /\ Len(fed) >= Len(SimUpload) + 8
          /\ SubSeq(fed, Len(SimUpload) + 1, Len(SimUpload) + 8) =
                to_le_bytes(build_reg_cmd(CMD_ID_WRITE, REG_IDX_DEV_EN, U32Of(1)))
          /\ SimImageDelivered

C29_Witness ==
    /\ dev.regs[REG_IDX_DEV_EN] # 0
    /\ Len(SimUpload) = 20
    /\ Len(fed) = 28
    /\ dev.mem[3] = 68

\* C30: the bytes ever written are the bytes fed to the channel followed by
\* input_queue, and the bytes the channel produced are as many as the bytes
\* handed out by reads plus those in output_queue: no byte is dropped or
\* duplicated in either direction.
C30_ByteConservation ==
    /\ written = fed \o input_queue
    /\ Len(written) = Len(fed) + Len(input_queue)
    /\ Len(produced) = Len(returned) + Len(output_queue)

C30_Witness ==
    /\ fed # <<>>
    /\ clocks > Len(fed)
    /\ Len(returned) = 1
    /\ Len(output_queue) = 1
    /\ Len(produced) = 2
    /\ LastCall.op = "read_exact"

(***************************************************************************)
(* Properties of timed-out reads, of sim's polling loop and of the         *)
(* encodings.                                                              *)
(***************************************************************************)
\* the command word of the read in progress
CurReadCmd ==
    IF cur.op = "read_bytes" THEN build_cmd(CMD_ID_READ, cur.addr, U32Of(cur.n))
    ELSE build_reg_cmd(CMD_ID_READ, cur.idx, U32_ALL_ONES)

\* C31: a read_bytes or read_reg that returns Timeout withdraws nothing: while
\* it waits and when it returns, its Read command is the last thing written and
\* every byte written is either fed to the channel or still in input_queue;
\* the return itself leaves both queues, the channel and the caller's buffer as
\* they are, so the bytes captured so far stay in output_queue; and a
\* wait_for_output(4, 40) that follows a read_reg timed out on a budget of 0
\* completes with the four bytes of that request.
C31_TimedOutReadLeftovers ==
    /\ []((pc = "wait" /\ IsRead(cur)) =>
             /\ Len(written) >= 8
             /\ SubSeq(written, Len(written) - 7, Len(written)) = to_le_bytes(CurReadCmd)
             /\ written = fed \o input_queue
             /\ produced = returned \o output_queue)
    /\ [][(WaitReturns /\ IsRead(cur) /\ LastCall'.res = "Timeout") =>
             /\ input_queue' = input_queue
             /\ output_queue' = output_queue
             /\ written' = written /\ fed' = fed
             /\ produced' = produced /\ returned' = returned
             /\ dev' = dev /\ clocks' = clocks
             /\ LastCall'.qlen = Len(output_queue)
             /\ LastCall'.out = cur.buf]_vars
    /\ []((/\ Len(log) >= 2
           /\ log[1].op = "read_reg" /\ log[1].res = "Timeout" /\ log[1].max = 0
           /\ log[2].op = "wait_for_output" /\ log[2].n = 4 /\ log[2].max = 40) =>
             /\ log[2].res = "Ok"
             /\ log[2].qlen = 4
             /\ Len(log) = 2 => OwnResponse(output_queue, 1, 4))

C31_Witness ==
    /\ Len(log) = 2
    /\ log[1].op = "read_bytes"
    /\ log[1].res = "Timeout"
    /\ log[1].driven = 9
    /\ log[1].qlen = 1
    /\ log[2].op = "wait_for_output"
    /\ log[2].res = "Ok"
    /\ log[2].driven = 0
    /\ output_queue[1].rd = 1

\* main runs on while it has a step to take; the device halts when its
\* program does, if ever
SimStep ==
    \/ SimLoadElf
    \/ SimEnable
    \/ SimPoll
    \/ SimPolled
    \/ SimTriesOver
    \/ SimReport
    \/ SimQuerySize
    \/ SimDump
    \/ SimSave
    \/ QueryIsHaltedReturn
    \/ QueryFramebufferSizeReturn
    \/ DumpAfterSize
    \/ DumpAfterAddr
    \/ DumpReturn
    \/ WaitClock
    \/ ReadBytesReturn
    \/ ReadRegReturn

SpecSimFair == InitSim /\ [][NextSim]_vars /\ WF_vars(SimStep)

SimInLoop == app.sim.at \in {"poll", "polled"}

SimLoopLeft == app.sim.at \in {"report", "size", "sized", "dumped", "exit_ok", "exit_err", "panic"}

\* the query_is_halted calls made so far
HaltQueries == {i \in 1..Len(app.dlog) : IsHaltQuery(app.dlog[i])}

HaltQueryRead0(i) == app.dlog[i].res = "Ok" /\ app.dlog[i].ret = "true"

\* C32: every polling loop that is entered is left; it makes at most MAX_TRIES
\* queries; a query that returns an error ends it with stopped unchanged; a
\* query that reads 0 from the enable register ends it with stopped = true;
\* and once it is left, stopped = true exactly when a query read 0.
C32_LoopTermination ==
    /\ SimInLoop ~> SimLoopLeft
    /\ [](/\ app.sim.tries <= MAX_TRIES
          /\ Cardinality(HaltQueries) <= app.sim.tries)
    /\ [][(SimPolled /\ LastDCall.res # "Ok") =>
             (app'.sim.at = "report" /\ app'.sim.stopped = app.sim.stopped)]_vars
    /\ [][(SimPolled /\ LastDCall.res = "Ok" /\ LastDCall.ret = "true") =>
             (app'.sim.at = "report" /\ app'.sim.stopped)]_vars
    /\ [][(SimPolled /\ LastDCall.res = "Ok" /\ LastDCall.ret = "false") =>
             (app'.sim.at = "poll" /\ app'.sim.stopped = app.sim.stopped)]_vars
    /\ [](SimLoopLeft =>
             (app.sim.stopped <=> \E i \in HaltQueries : HaltQueryRead0(i)))

\* the register is read 0 by the second and last query of the loop
C32_Witness ==
    /\ app.sim.at = "report"
    /\ app.sim.stopped
    /\ app.sim.tries = MAX_TRIES
    /\ Cardinality(HaltQueries) = MAX_TRIES
    /\ dev.regs[REG_IDX_DEV_EN] = 0

\* the statement as written: every query answered, and the enable register
\* from some point on 0 for good, lead to a loop left with stopped = true
C32_AsWritten ==
    (/\ [](\A i \in HaltQueries : app.dlog[i].res = "Ok")
     /\ <>(app.sim.at = "poll")
     /\ <>[](dev.regs[REG_IDX_DEV_EN] = 0))
        => <>(SimLoopLeft /\ app.sim.stopped)

\* the sizes a three-bit exponent plus one can give
FbSides == {2, 4, 8, 16, 32, 64, 128, 256}

\* C33: for every FB_CONFIG word the decoded width and height are powers of
\* two between 2 and 256, and the byte count width * height * 4 of
\* dump_framebuffer and of the front ends is at most 262144, far below 2^32:
\* neither width * height nor its product with 4 wraps.
C33_FbSizeBounded ==
    app.fn.done =>
        /\ app.fn.w \in FbSides
        /\ app.fn.h \in FbSides
        /\ app.fn.w * app.fn.h <= 65536
        /\ fb_num_pixels(app.fn.w, app.fn.h) <= 262144
        /\ fb_num_pixels(app.fn.w, app.fn.h) = (app.fn.w * app.fn.h) * 4
        /\ U32Of(fb_num_pixels(app.fn.w, app.fn.h)).hi = 0

\* the largest framebuffer, decoded from a word with all its bits set
C33_Witness ==
    /\ app.fn.done
    /\ app.fn.fb_config = U32_ALL_ONES
    /\ app.fn.w = 256
    /\ app.fn.h = 256
    /\ fb_num_pixels(app.fn.w, app.fn.h) = 262144

\* ---------------------------------------------------------------------------
\* build_reg_cmd on pairs of register indices.

\* the register indices of the device, their neighbours, and the u16 values
\* around the sentinel's lowest bit (idx * 4 = 0x1000) and around the top of
\* the type (idx * 4 = 0x10000)
RegIdxs ==
    { REG_IDX_DEV_EN, REG_IDX_FB_ADDR, REG_IDX_FB_CONFIG, 3, 1023, 1024, 1025,
      16383, 16384, 16385, 65535 }

InitReg ==
    /\ clocks = 0
    /\ input_queue = <<>>
    /\ output_queue = <<>>
    /\ dev = DevInit
    /\ pc = "fn"
    /\ cur = NoCall
    /\ log = <<>>
    /\ issued = 0
    /\ written = <<>>
    /\ fed = <<>>
    /\ produced = <<>>
    /\ returned = <<>>
    /\ stalls = 0
    /\ enc = EncIdle
    /\ handle = "HANDLE"
    /\ \E a \in RegIdxs, b \in RegIdxs :
          app = [AppIdle EXCEPT !.fn = [kind |-> "regs", a |-> a, b |-> b,
                                        done |-> FALSE,
                                        cmd_a |-> build_cmd(0, U32Of(0), U32Of(0)),
                                        cmd_b |-> build_cmd(0, U32Of(0), U32Of(0))]]

\* build_reg_cmd for a and for b, as cmd_read_reg calls it: the two command words
EncodeRegs ==
    /\ pc = "fn"
    /\ ~app.fn.done
    /\ app' = [app EXCEPT !.fn.done = TRUE,
                          !.fn.cmd_a = build_reg_cmd(CMD_ID_READ, app.fn.a, U32_ALL_ONES),
                          !.fn.cmd_b = build_reg_cmd(CMD_ID_READ, app.fn.b, U32_ALL_ONES)]
    /\ bridge_untouched

NextReg == EncodeRegs

SpecReg == InitReg /\ [][NextReg]_vars

\* C34 (as claimed): the register indices 0, 1 and 2 get the address subfields
\* 0x3ffff000, 0x3ffff004 and 0x3ffff008, pairwise distinct and with every
\* sentinel bit set, and two different 16-bit indices never get the same
\* address subfield.
C34_RegAddrsDistinct ==
    app.fn.done =>
        /\ app.fn.a \in {REG_IDX_DEV_EN, REG_IDX_FB_ADDR, REG_IDX_FB_CONFIG} =>
              /\ app.fn.cmd_a.addr = REG_SENTINEL + app.fn.a * 4
              /\ BitAnd(app.fn.cmd_a.addr, REG_SENTINEL) = REG_SENTINEL
        /\ app.fn.a # app.fn.b => app.fn.cmd_a.addr # app.fn.cmd_b.addr

\* ---------------------------------------------------------------------------
\* The legacy bridge of main.rs: 32-bit command words with 14-bit address and
\* size subfields.

FIELD14 == 16384   \* 2^14, the width of the 0x3fff subfields

\* `buf.len() as u16`
len_as_u16(len) == len % U16_MOD

\* `size - 1` for size: u16; for size = 0 the subtraction overflows, which
\* panics in a build with overflow checks and wraps to 0xffff in one without
main_size_sub_1(size) ==
    IF size = 0
    THEN {[panic |-> TRUE, val |-> 0], [panic |-> FALSE, val |-> U16_MOD - 1]}
    ELSE {[panic |-> FALSE, val |-> size - 1]}

\* main.rs build_cmd: the outcomes, a panic or the u32 command word
main_build_cmd(id, addr, size) ==
    { [panic |-> d.panic,
       word  |-> IF d.panic THEN 0
                 ELSE (id % 16) * 268435456 + (addr % FIELD14) * FIELD14
                          + (d.val % FIELD14)] :
      d \in main_size_sub_1(size) }

\* u32::to_le_bytes
main_to_le_bytes(w) ==
    << w % 256, (w \div 256) % 256, (w \div 65536) % 256, w \div 16777216 >>

\* main.rs write_cmd
main_write_cmd(iq, cmd) == io_write(iq, main_to_le_bytes(cmd))

\* the payload of a write: len bytes, the pattern of memory_test
LegacyBuf(len) == [i \in 1..len |-> (i - 1) % 256]

LegacyLens == (0..8) \cup {16383, 16384, 16385, 65535, 65536, 65537}

LegacyAddrs == {0, 1, 7936, 16383, 16384, 65535}

InitLegacy ==
    /\ clocks = 0
    /\ input_queue = <<>>
    /\ output_queue = <<>>
    /\ dev = DevInit
    /\ pc = "fn"
    /\ cur = NoCall
    /\ log = <<>>
    /\ issued = 0
    /\ written = <<>>
    /\ fed = <<>>
    /\ produced = <<>>
    /\ returned = <<>>
    /\ stalls = 0
    /\ enc = EncIdle
    /\ handle = "HANDLE"
    /\ \E op \in {"write_bytes", "read_bytes"}, addr \in LegacyAddrs,
          len \in LegacyLens :
          app = [AppIdle EXCEPT !.fn = [kind |-> "legacy", op |-> op, addr |-> addr,
                                        len |-> len, done |-> FALSE,
                                        panicked |-> FALSE]]

LegacyDone(panicked) ==
    app' = [app EXCEPT !.fn.done = TRUE, !.fn.panicked = panicked]

LegacyUnchanged ==
    UNCHANGED <<clocks, output_queue, dev, pc, cur, log, issued, written, fed,
                produced, returned, stalls, enc, handle>>

\* main.rs write_bytes(addr, buf): cmd_write_bytes, then write_all(buf)
LegacyWriteBytes ==
    /\ pc = "fn"
    /\ app.fn.kind = "legacy" /\ app.fn.op = "write_bytes" /\ ~app.fn.done
    /\ \E c \in main_build_cmd(CMD_ID_WRITE, app.fn.addr, len_as_u16(app.fn.len)) :
          /\ input_queue' =
                IF c.panic THEN input_queue
                ELSE io_write(main_write_cmd(input_queue, c.word),
                              LegacyBuf(app.fn.len))
          /\ LegacyDone(c.panic)
    /\ LegacyUnchanged

\* main.rs read_bytes(addr, buf, _), its first statement: cmd_read_bytes
LegacyCmdReadBytes ==
    /\ pc = "fn"
    /\ app.fn.kind = "legacy" /\ app.fn.op = "read_bytes" /\ ~app.fn.done
    /\ \E c \in main_build_cmd(CMD_ID_READ, app.fn.addr, len_as_u16(app.fn.len)) :
          /\ input_queue' =
                IF c.panic THEN input_queue ELSE main_write_cmd(input_queue, c.word)
          /\ LegacyDone(c.panic)
    /\ LegacyUnchanged

NextLegacy == LegacyWriteBytes \/ LegacyCmdReadBytes

SpecLegacy == InitLegacy /\ [][NextLegacy]_vars

\* the size subfield of the command word at the front of the queue
LegacySizeField == (input_queue[1] + 256 * input_queue[2]) % FIELD14

\* C35 (as claimed): for every payload length that write_bytes / read_bytes of
\* main.rs accept, build_cmd neither underflows nor wraps and the 14-bit size
\* subfield of the queued command word, plus one, is that length; the lengths
\* 1..16384 are stored as 0..16383.
C35_LegacySizeRoundTrip ==
    app.fn.done =>
        /\ ~app.fn.panicked
        /\ Len(input_queue) >= 4
        /\ LegacySizeField + 1 = app.fn.len
        /\ app.fn.len \in 1..FIELD14 => LegacySizeField = app.fn.len - 1

====
